---- MODULE Spec2Model ----
(***************************************************************************)
(* A model of the record-matching and clustering engine of dataforge:      *)
(*   dataforge/matching.py            exact (barcode) match resolver       *)
(*   dataforge/similarity_matching.py similarity scoring, union-find       *)
(*                                    clustering, component splitting      *)
(*   dataforge/similarity_config.py   scoring configuration                *)
(*   dataforge/matching_helpers.py    merge codes and duplicate marking    *)
(*                                                                         *)
(* Conventions.  SQL NULL / Python None of a scalar column is the value    *)
(* NULL.  A JSON barcode list is modelled as the set of its elements.  A   *)
(* relation with bag semantics carries a field copy (1..multiplicity).     *)
(* Scores that the code computes in floating point are kept exactly, in    *)
(* hundredths, and the penalty multiplier in percent.                      *)
(***************************************************************************)
EXTENDS Integers, Sequences, FiniteSets, TLC

VARIABLES
    oz_products,        \* table oz_products: rows (oz_sku, oz_vendor_code, "barcode-primary")
    oz_products_full,   \* table oz_products_full: rows (oz_vendor_code, barcodes, primary_barcode)
    wb_products,        \* table wb_products: rows (wb_sku, barcodes, primary_barcode, ...)
    inputs,             \* the registered relation `inputs` of the last resolver call
    limit,              \* limit_per_input of the last call: <<>> is None, <<n>> is n
    oz_rows,            \* CTE oz_barcodes of the last call
    wb_rows,            \* CTE wb_barcodes of the last call
    df,                 \* the rows the last resolver call returned, in order
    pc,                 \* which operation produced the current result
    punta_exists,       \* whether table punta_google exists
    punta_google,       \* table punta_google: rows (wb_sku, season, color, ...)
    cfg,                \* the SimilarityScoringConfig of the last similarity call
    seeds,              \* the seed keys (wb_skus) of the last similarity call
    scored,             \* CTE scored of the last call
    df_pairs,           \* the CandidatePair rows the scoring query returned, in order
    component,          \* argument component of the last _split_large_component call
    max_size,           \* argument max_size of the last _split_large_component call
    components,         \* the list of (sub)components, in the order the code builds it
    out,                \* the table search_similar_matches returned, in row order
    prev_out,           \* the table the previous call on the same arguments returned
    calls,              \* how many times the current arguments were submitted
    iterOrder,          \* the order in which this build iterates a set of keys
    dup_in,             \* the table given to mark_duplicate_sizes, in row order
    dup_args,           \* the other arguments of the last mark_duplicate_sizes call
    dup_out,            \* the table mark_duplicate_sizes returned, in row order
    punta_enabled,      \* whether tables punta_barcodes and punta_products_codes exist
    punta_barcodes,     \* table punta_barcodes: rows (external_code, barcode)
    punta_products_codes, \* table punta_products_codes: rows (external_code, collection)
    raised,             \* the exception the last public operation raised, "" if none
    merge_arg,          \* the argument of the last call of a merge-field helper
    merge_ret,          \* what the merge-field helper calls returned
    connections,        \* the store connections: the caller's handle and those the engine opened
    invocations,        \* the engine invocations in progress, each with its position
    punta_collections,  \* table punta_collections: rows (collection, priority, active)
    coll_order,         \* argument order of the last reorder_punta_collections call
    coll_before         \* table punta_collections before the last collection operation

storeVars == <<oz_products, oz_products_full, wb_products, punta_exists, punta_google,
               punta_enabled, punta_barcodes, punta_products_codes>>
apiVars == <<raised>>
matchVars == <<inputs, limit, oz_rows, wb_rows, df>>
simVars == <<cfg, seeds, scored, df_pairs, component, max_size, components,
             out, prev_out, calls, iterOrder>>
dupVars == <<dup_in, dup_args, dup_out>>
helperVars == <<merge_arg, merge_ret>>
conVars == <<connections, invocations>>
collVars == <<punta_collections, coll_order, coll_before>>

vars == <<storeVars, matchVars, simVars, dupVars, apiVars, helperVars, conVars, collVars, pc>>

\* no result of the resolvers, of the similarity search, of the duplicate marker
MatchIdle ==
    /\ inputs = <<>>
    /\ limit = <<>>
    /\ oz_rows = {}
    /\ wb_rows = {}
    /\ df = <<>>

SimIdle ==
    /\ cfg = <<>>
    /\ seeds = {}
    /\ scored = {}
    /\ df_pairs = <<>>
    /\ component = {}
    /\ max_size = <<>>
    /\ components = <<>>
    /\ out = <<>>
    /\ prev_out = <<>>
    /\ calls = 0
    /\ iterOrder = <<>>

DupIdle ==
    /\ dup_in = <<>>
    /\ dup_args = <<>>
    /\ dup_out = <<>>

\* no mapping source, no exception
NoPunta ==
    /\ punta_enabled = FALSE
    /\ punta_barcodes = {}
    /\ punta_products_codes = {}

ApiIdle == raised = ""

HelperIdle == merge_arg = <<>> /\ merge_ret = <<>>

\* no connection, no invocation in progress; no collection table
ConIdle == connections = <<>> /\ invocations = <<>>

CollIdle == punta_collections = {} /\ coll_order = <<>> /\ coll_before = {}

----------------------------------------------------------------------------
(* Bounds of the model *)

MaxBarcode == 2      \* barcode values are 1..MaxBarcode
MaxInputLen == 2     \* a resolver call gets at most this many input keys
MaxLimit == 2        \* limits range over None and -1..MaxLimit

NULL == 0

Barcodes == 1..MaxBarcode
InputKeys == {1, 2}

----------------------------------------------------------------------------
(* Generic helpers *)

SeqsUpTo(S, n) == UNION {[1..k -> S] : k \in 0..n}

Range(s) == {s[i] : i \in DOMAIN s}

Count(x, s) == Cardinality({i \in DOMAIN s : s[i] = x})

Min2(a, b) == IF a <= b THEN a ELSE b

\* the element of a one-element set
The(S) == CHOOSE x \in S : TRUE

----------------------------------------------------------------------------
(* Barcode Normalizer: the CTEs oz_base .. oz_barcodes and wb_barcodes *)

\* oz_base / oz_full: the oz_products rows the resolver starts from
oz_base(keys) == {p \in oz_products : p.oz_sku \in keys}

\* LEFT JOIN oz_products_full f ON f.oz_vendor_code = b.oz_vendor_code
FullRowsOf(b) == {f \in oz_products_full : f.oz_vendor_code = b.oz_vendor_code}

\* CASE WHEN json_extract_string(j.value,'$') = primary THEN TRUE ELSE FALSE END
\* (a NULL primary makes the comparison NULL, hence FALSE)
IsPrimaryFlag(barcode, primary) == primary # NULL /\ barcode = primary

oz_full_barcodes(base) ==
    UNION { UNION { { [oz_sku |-> b.oz_sku,
                       oz_vendor_code |-> b.oz_vendor_code,
                       barcode |-> j,
                       is_primary |-> IsPrimaryFlag(j, f.primary_barcode),
                       oz_primary_barcode |-> f.primary_barcode] : j \in f.barcodes }
                    : f \in FullRowsOf(b) } : b \in base }

\* WHERE barcode-primary IS NOT NULL AND NOT EXISTS (it among f.barcodes)
NeedsPrimaryExtra(b) ==
    /\ b.barcode_primary # NULL
    /\ \/ FullRowsOf(b) = {}
       \/ \E f \in FullRowsOf(b) : b.barcode_primary \notin f.barcodes

oz_primary_extra(base) ==
    { [oz_sku |-> b.oz_sku,
       oz_vendor_code |-> b.oz_vendor_code,
       barcode |-> b.barcode_primary,
       is_primary |-> TRUE,
       oz_primary_barcode |-> b.barcode_primary] : b \in {x \in base : NeedsPrimaryExtra(x)} }

\* SELECT DISTINCT ... FROM (oz_full_barcodes UNION ALL oz_primary_extra) WHERE barcode IS NOT NULL
oz_barcodes(base) ==
    {r \in oz_full_barcodes(base) \cup oz_primary_extra(base) : r.barcode # NULL}

\* wb_barcodes: every listed barcode of every product of `products`; `mult`
\* is the number of rows of inp the product joins with (1 when inp is not joined)
wb_barcodes(products, mult) ==
    UNION { UNION { { [wb_sku |-> wp.wb_sku,
                       barcode |-> j,
                       is_primary |-> IsPrimaryFlag(j, wp.primary_barcode),
                       wb_primary_barcode |-> wp.primary_barcode,
                       copy |-> c] : c \in 1..mult[wp.wb_sku] }
                    : j \in wp.barcodes } : wp \in products }

----------------------------------------------------------------------------
(* Exact Match Resolver: joined, ranked, the final SELECT *)

\* CASE ... END AS matched_by   (three-valued: a NULL flag is neither TRUE nor FALSE)
MatchedBy(o, w) ==
    IF o = TRUE /\ w = TRUE THEN "primary<->primary"
    ELSE IF o = TRUE /\ w = FALSE THEN "primary<->any"
    ELSE IF o = FALSE /\ w = TRUE THEN "any<->primary"
    ELSE "any<->any"

\* a wrong score rule: the "either side primary" test ahead of the "both" test
MatchScoreMutant(o, w) ==
    IF o = TRUE \/ w = TRUE THEN 80
    ELSE IF o = TRUE /\ w = TRUE THEN 100
    ELSE 60

\* CASE ... END AS match_score
MatchScore(o, w) ==
    IF o = TRUE /\ w = TRUE THEN 100
    ELSE IF o = TRUE \/ w = TRUE THEN 80
    ELSE 60

\* joined: oz_barcodes JOIN wb_barcodes ON equal barcode
joined(ozr, wbr) ==
    { [oz_sku |-> o.oz_sku,
       wb_sku |-> w.wb_sku,
       barcode_hit |-> w.barcode,
       oz_is_primary_hit |-> o.is_primary,
       wb_is_primary_hit |-> w.is_primary,
       matched_by |-> MatchedBy(o.is_primary, w.is_primary),
       match_score |-> MatchScore(o.is_primary, w.is_primary),
       copy |-> w.copy] : <<o, w>> \in {p \in ozr \X wbr : p[1].barcode = p[2].barcode} }

\* the side the caller queried by, and the opposite side
InputKey(r, side) == IF side = "oz" THEN r.oz_sku ELSE r.wb_sku
OppositeKey(r, side) == IF side = "oz" THEN r.wb_sku ELSE r.oz_sku

\* a DataFrame row: the bag copy index is not a column
DfRow(r) == [r EXCEPT !.copy = 1]

\* ORDER BY <input key>, match_score DESC, <opposite key>: strictly before
OrderedBefore(a, b, side) ==
    \/ InputKey(a, side) < InputKey(b, side)
    \/ /\ InputKey(a, side) = InputKey(b, side)
       /\ \/ a.match_score > b.match_score
          \/ /\ a.match_score = b.match_score
             /\ \/ OppositeKey(a, side) < OppositeKey(b, side)
                \/ /\ DfRow(a) = DfRow(b)      \* copies of one row are alike:
                   /\ a.copy < b.copy          \* they are listed in one order

\* every order the engine may produce for ORDER BY: rows that compare equal
\* come in any order
RECURSIVE SortedSeqs(_, _)
SortedSeqs(S, side) ==
    IF S = {} THEN {<<>>}
    ELSE UNION { { <<m>> \o t : t \in SortedSeqs(S \ {m}, side) }
                 : m \in {x \in S : \A y \in S : ~OrderedBefore(y, x, side)} }

\* ROW_NUMBER() OVER (PARTITION BY <input key> ORDER BY match_score DESC, <opposite key>)
RowNumber(order, i, side) ==
    Cardinality({j \in 1..i : InputKey(order[j], side) = InputKey(order[i], side)})

\* params = [None, 0] or [L, L]
Params(lim) == IF lim = <<>> \/ lim[1] <= 0 THEN <<>> ELSE lim

\* WHERE (? IS NULL OR r.rn <= ?)
Ranked(order, lim, side) ==
    {order[i] : i \in {k \in DOMAIN order :
                         Params(lim) = <<>> \/ RowNumber(order, k, side) <= Params(lim)[1]}}

\* all results the final SELECT may return for the joined rows J
\* (without a limit every window order keeps all of J)
QueryResults(J, lim, side) ==
    IF Params(lim) = <<>>
    THEN { [i \in DOMAIN s |-> DfRow(s[i])] : s \in SortedSeqs(J, side) }
    ELSE UNION { { [i \in DOMAIN s |-> DfRow(s[i])] :
                      s \in SortedSeqs(Ranked(order, lim, side), side) }
                 : order \in SortedSeqs(J, side) }

One == [k \in {wp.wb_sku : wp \in wb_products} |-> 1]

\* limit_per_input: None (<<>>) or an integer
Limits == {<<>>} \cup {<<n>> : n \in -1..MaxLimit}

\* _matches_for_oz_skus
MatchesForOzSkus ==
    \E inp \in SeqsUpTo(InputKeys, MaxInputLen), lim \in Limits :
        /\ pc = "idle"
        /\ inputs' = inp
        /\ limit' = lim
        /\ pc' = "oz_skus"
        /\ UNCHANGED <<storeVars, helperVars, conVars, collVars, apiVars, simVars, dupVars>>
        /\ IF inp = <<>>
           THEN /\ df' = <<>>
                /\ oz_rows' = {}
                /\ wb_rows' = {}
           ELSE LET ozr == oz_barcodes(oz_base(Range(inp)))
                    wbr == wb_barcodes(wb_products, One)
                IN /\ oz_rows' = ozr
                   /\ wb_rows' = wbr
                   /\ df' \in QueryResults(joined(ozr, wbr), lim, "oz")

\* _matches_for_wb_skus
MatchesForWbSkus ==
    \E inp \in SeqsUpTo(InputKeys, MaxInputLen), lim \in Limits :
        /\ pc = "idle"
        /\ inputs' = inp
        /\ limit' = lim
        /\ pc' = "wb_skus"
        /\ UNCHANGED <<storeVars, helperVars, conVars, collVars, apiVars, simVars, dupVars>>
        /\ IF inp = <<>>
           THEN /\ df' = <<>>
                /\ oz_rows' = {}
                /\ wb_rows' = {}
           ELSE LET InpCount == [k \in {wp.wb_sku : wp \in wb_products} |-> Count(k, inp)]
                    ozr == oz_barcodes(oz_products)
                    wbr == wb_barcodes(wb_products, InpCount)
                IN /\ oz_rows' = ozr
                   /\ wb_rows' = wbr
                   /\ df' \in QueryResults(joined(ozr, wbr), lim, "wb")

----------------------------------------------------------------------------
(* SimilarityScoringConfig.  min_score_threshold and every computed score   *)
(* are in hundredths; no_last_penalty_multiplier is in percent.            *)

EMPTY == -1          \* the empty string '' of a tag column

DefaultConfig ==
    [base_score |-> 100, max_score |-> 600,
     season_match_bonus |-> 80, season_mismatch_penalty |-> -40,
     color_match_bonus |-> 40, material_match_bonus |-> 40, fastener_match_bonus |-> 30,
     mega_last_bonus |-> 90, best_last_bonus |-> 70, new_last_bonus |-> 50,
     model_match_bonus |-> 40,
     no_last_penalty_multiplier |-> 70,
     min_score_threshold |-> 30000,
     max_candidates_per_seed |-> 30,
     max_group_size |-> <<10>>]

\* SimilarityScoringConfig.validate: TRUE when it does not raise
validate(c) ==
    /\ c.base_score > 0
    /\ 0 < c.min_score_threshold /\ c.min_score_threshold < c.max_score * 100
    /\ c.max_candidates_per_seed > 0
    /\ 0 < c.no_last_penalty_multiplier /\ c.no_last_penalty_multiplier <= 100
    /\ (IF c.max_group_size = <<>> THEN TRUE ELSE c.max_group_size[1] > 0)

----------------------------------------------------------------------------
(* Similarity Candidate Generator: the CTEs seed .. scored of the scoring   *)
(* query of search_similar_matches                                          *)

\* SQL a = b as a CASE/WHERE condition: true only for two equal non-null values
SqlEq(a, b) == a # NULL /\ b # NULL /\ a = b

PuntaRow(k, season, color, lacing, material, mega, best, new, model) ==
    [wb_sku |-> k, season |-> season, color |-> color, lacing_type |-> lacing,
     material_short |-> material, mega_last |-> mega, best_last |-> best,
     new_last |-> new, model_name |-> model]

\* the pg_seed / pg_cand columns of a key: its punta_google rows, or one row of
\* NULLs when the LEFT JOIN finds none or the table does not exist
NullPunta(k) == PuntaRow(k, NULL, NULL, NULL, NULL, NULL, NULL, NULL, NULL)

PuntaOf(k) ==
    IF punta_exists /\ \E r \in punta_google : r.wb_sku = k
    THEN {r \in punta_google : r.wb_sku = k}
    ELSE {NullPunta(k)}

seed_enriched(S) ==
    { [seed_wb_sku |-> wp.wb_sku, seller_category |-> wp.seller_category, gender |-> wp.gender]
        : wp \in {w \in wb_products : w.wb_sku \in S} }

candidates(S) ==
    { [cand_wb_sku |-> p[1].wb_sku, seed_wb_sku |-> p[2].seed_wb_sku]
        : p \in { q \in wb_products \X seed_enriched(S) :
                    /\ SqlEq(q[2].seller_category, q[1].seller_category)
                    /\ SqlEq(q[2].gender, q[1].gender)
                    /\ q[1].wb_sku # q[2].seed_wb_sku } }

material_filter(ps, pcand) ==
    \/ ~punta_exists
    \/ ps.material_short = NULL
    \/ pcand.material_short = NULL
    \/ ps.material_short = pcand.material_short

pairs(S) ==
    UNION { { [seed_wb_sku |-> c.seed_wb_sku, cand_wb_sku |-> c.cand_wb_sku,
               seed |-> t[1], cand |-> t[2]]
                : t \in { u \in PuntaOf(c.seed_wb_sku) \X PuntaOf(c.cand_wb_sku) :
                            material_filter(u[1], u[2]) } }
            : c \in candidates(S) }

season_score(ps, pcand, c) ==
    IF ps.season # NULL /\ pcand.season # NULL
    THEN IF ps.season = pcand.season THEN c.season_match_bonus ELSE c.season_mismatch_penalty
    ELSE 0

color_score(ps, pcand, c) ==
    IF ps.color # NULL /\ SqlEq(ps.color, pcand.color) THEN c.color_match_bonus ELSE 0

material_score(ps, pcand, c) ==
    IF ps.material_short # NULL /\ SqlEq(ps.material_short, pcand.material_short)
    THEN c.material_match_bonus ELSE 0

fastener_score(ps, pcand, c) ==
    IF ps.lacing_type # NULL /\ SqlEq(ps.lacing_type, pcand.lacing_type)
    THEN c.fastener_match_bonus ELSE 0

last_score(ps, pcand, c) ==
    IF ps.mega_last # NULL /\ ps.mega_last # EMPTY /\ SqlEq(ps.mega_last, pcand.mega_last)
        THEN c.mega_last_bonus
    ELSE IF ps.best_last # NULL /\ ps.best_last # EMPTY /\ SqlEq(ps.best_last, pcand.best_last)
        THEN c.best_last_bonus
    ELSE IF ps.new_last # NULL /\ ps.new_last # EMPTY /\ SqlEq(ps.new_last, pcand.new_last)
        THEN c.new_last_bonus
    ELSE 0

model_score(ps, pcand, c) ==
    IF ps.model_name # NULL /\ ps.model_name # EMPTY /\ SqlEq(ps.model_name, pcand.model_name)
    THEN c.model_match_bonus ELSE 0

raw_score(ps, pcand, c) ==
    c.base_score + season_score(ps, pcand, c) + color_score(ps, pcand, c)
        + material_score(ps, pcand, c) + fastener_score(ps, pcand, c)
        + last_score(ps, pcand, c) + model_score(ps, pcand, c)

adjusted_score(ps, pcand, c) ==
    IF last_score(ps, pcand, c) = 0
    THEN raw_score(ps, pcand, c) * c.no_last_penalty_multiplier
    ELSE raw_score(ps, pcand, c) * 100

final_score(ps, pcand, c) ==
    IF punta_exists
    THEN Min2(c.max_score * 100, adjusted_score(ps, pcand, c))
    ELSE c.base_score * 100

ScoredRows(S, c) ==
    { [seed_wb_sku |-> r.seed_wb_sku, cand_wb_sku |-> r.cand_wb_sku,
       seed |-> r.seed, cand |-> r.cand,
       final_score |-> final_score(r.seed, r.cand, c)] : r \in pairs(S) }

\* CTE filtered
filtered(rows, c) == {r \in rows : r.final_score >= c.min_score_threshold}

\* the largest element of a non-empty set of integers
Max(S) == CHOOSE x \in S : \A y \in S : y <= x

\* CTE deduped: GROUP BY seed_wb_sku, cand_wb_sku with MAX(final_score)
deduped(F) ==
    { [seed_wb_sku |-> r.seed_wb_sku, cand_wb_sku |-> r.cand_wb_sku,
       final_score |-> Max({x.final_score : x \in {y \in F :
                                /\ y.seed_wb_sku = r.seed_wb_sku
                                /\ y.cand_wb_sku = r.cand_wb_sku}})] : r \in F }

\* ORDER BY seed_wb_sku, final_score DESC, cand_wb_sku
PairBefore(a, b) ==
    \/ a.seed_wb_sku < b.seed_wb_sku
    \/ /\ a.seed_wb_sku = b.seed_wb_sku
       /\ \/ a.final_score > b.final_score
          \/ a.final_score = b.final_score /\ a.cand_wb_sku < b.cand_wb_sku

\* a wrong rank: by candidate key alone
rn_mutant(r, D) ==
    1 + Cardinality({x \in D : x.seed_wb_sku = r.seed_wb_sku /\ x.cand_wb_sku < r.cand_wb_sku})

\* CTE ranked: ROW_NUMBER() OVER (PARTITION BY seed_wb_sku ORDER BY final_score DESC, cand_wb_sku)
rn(r, D) ==
    1 + Cardinality({x \in D : x.seed_wb_sku = r.seed_wb_sku /\ PairBefore(x, r)})

RECURSIVE SortPairs(_)
SortPairs(D) ==
    IF D = {} THEN <<>>
    ELSE LET m == CHOOSE x \in D : \A y \in D \ {x} : PairBefore(x, y)
         IN <<m>> \o SortPairs(D \ {m})

\* the rows the scoring query returns (df_pairs)
ScoringQuery(S, c) ==
    LET D == deduped(filtered(ScoredRows(S, c), c))
    IN SortPairs({r \in D : rn(r, D) <= c.max_candidates_per_seed})

\* similarity_scores[wb]: the final_score of the last df_pairs row whose candidate
\* is wb; for a seed that is nobody's candidate the maximum of its own rows
similarity_score(P, wb) ==
    LET asCand == {i \in DOMAIN P : P[i].cand_wb_sku = wb}
        asSeed == {i \in DOMAIN P : P[i].seed_wb_sku = wb}
    IN IF asCand # {} THEN P[Max(asCand)].final_score
       ELSE IF asSeed # {} THEN Max({P[i].final_score : i \in asSeed})
       ELSE 0

----------------------------------------------------------------------------
(* Connectivity Clusterer: the union-find of search_similar_matches.  A     *)
(* state is the dict parent with the insertion order of its keys.          *)

EmptyParent == [parent |-> <<>>, keys |-> <<>>]

setdefault(st, x) ==
    IF x \in DOMAIN st.parent THEN st
    ELSE [parent |-> st.parent @@ (x :> x), keys |-> Append(st.keys, x)]

RECURSIVE root(_, _)
root(parent, x) == IF parent[x] = x THEN x ELSE root(parent, parent[x])

RECURSIVE PathOf(_, _)
PathOf(parent, x) == IF parent[x] = x THEN {} ELSE {x} \cup PathOf(parent, parent[x])

\* find(x): registers x, compresses the path from x, leaves the roots as they are
find(st, x) ==
    The({ [s1 EXCEPT !.parent = [k \in DOMAIN s1.parent |->
                                    IF k \in path THEN r ELSE s1.parent[k]]]
          : <<s1, path, r>> \in
              { <<s, PathOf(s.parent, x), root(s.parent, x)>> : s \in {setdefault(st, x)} } })

\* a wrong union: b itself, not its root, is hung under the root of a
union_mutant(st, a, b) ==
    The({ IF ra # rb THEN [s2 EXCEPT !.parent[b] = ra] ELSE s2
          : <<s2, ra, rb>> \in
              { <<s, root(s.parent, a), root(s.parent, b)>> : s \in {find(find(st, a), b)} } })

union(st, a, b) ==
    The({ IF ra # rb THEN [s2 EXCEPT !.parent[rb] = ra] ELSE s2
          : <<s2, ra, rb>> \in
              { <<s, root(s.parent, a), root(s.parent, b)>> : s \in {find(find(st, a), b)} } })

RECURSIVE UnionRows(_, _, _)
UnionRows(P, i, st) ==
    IF i > Len(P) THEN st
    ELSE The({ UnionRows(P, i + 1, s)
               : s \in {union(st, P[i].seed_wb_sku, P[i].cand_wb_sku)} })

\* components = list(comp_map.values()): one set per root, in the order in
\* which the roots are first met when the keys are read in insertion order
RECURSIVE CompList(_, _, _)
CompList(st, i, seen) ==
    IF i > Len(st.keys) THEN <<>>
    ELSE LET r == root(st.parent, st.keys[i])
         IN IF r \in seen THEN CompList(st, i + 1, seen)
            ELSE <<{k \in DOMAIN st.parent : root(st.parent, k) = r}>>
                     \o CompList(st, i + 1, seen \cup {r})

Components(P) == The({ CompList(st, 1, {}) : st \in {UnionRows(P, 1, EmptyParent)} })

----------------------------------------------------------------------------
(* Component Bounder: _split_large_component.  ord is the order in which   *)
(* the build iterates the set `remaining`.                                 *)

Pos(x, ord) == CHOOSE i \in DOMAIN ord : ord[i] = x

RECURSIVE SumOver(_, _)
SumOver(S, f) ==
    IF S = {} THEN 0
    ELSE LET x == CHOOSE y \in S : TRUE IN f[x] + SumOver(S \ {x}, f)

\* the keys (min(a, b), max(a, b)) of the dict edges
EdgeKeys(comp, P) ==
    { <<Min2(P[i].seed_wb_sku, P[i].cand_wb_sku),
        IF P[i].seed_wb_sku >= P[i].cand_wb_sku THEN P[i].seed_wb_sku ELSE P[i].cand_wb_sku>>
        : i \in {j \in DOMAIN P : P[j].seed_wb_sku \in comp /\ P[j].cand_wb_sku \in comp} }

\* edges.get((min(a, b), max(a, b)), 0.0)
edges(a, b, comp, P) ==
    LET rows == {i \in DOMAIN P :
                    /\ P[i].seed_wb_sku \in comp /\ P[i].cand_wb_sku \in comp
                    /\ {P[i].seed_wb_sku, P[i].cand_wb_sku} = {a, b}}
    IN IF rows = {} THEN 0 ELSE Max({0} \cup {P[i].final_score : i \in rows})

node_scores(comp, P) ==
    [n \in comp |->
        LET K == EdgeKeys(comp, P)
            w == [k \in K |-> (IF k[1] = n THEN edges(k[1], k[2], comp, P) ELSE 0)
                              + (IF k[2] = n THEN edges(k[1], k[2], comp, P) ELSE 0)]
        IN SumOver(K, w)]

\* the first element, in iteration order, at which f is largest on S
FirstMax(S, f, ord) ==
    CHOOSE x \in S :
        /\ \A y \in S : f[y] <= f[x]
        /\ \A y \in S : f[y] = f[x] => Pos(x, ord) <= Pos(y, ord)

\* a wrong inner loop: the size test lets one member too many in
RECURSIVE GrowMutant(_, _, _, _, _, _, _)
GrowMutant(current_group, remaining, group_connections, comp, P, maxSize, ord) ==
    IF Cardinality(current_group) > maxSize \/ remaining = {}
    THEN <<current_group, remaining>>
    ELSE The({ IF group_connections[best_candidate] <= 0
               THEN <<current_group, remaining>>
               ELSE The({ GrowMutant(current_group \cup {best_candidate},
                                     remaining \ {best_candidate}, conn, comp, P, maxSize, ord)
                          : conn \in { [n \in remaining \ {best_candidate} |->
                                          group_connections[n]
                                          + edges(best_candidate, n, comp, P)] } })
               : best_candidate \in {FirstMax(remaining, group_connections, ord)} })

\* the inner while loop: grow current_group from `remaining`
RECURSIVE Grow(_, _, _, _, _, _, _)
Grow(current_group, remaining, group_connections, comp, P, maxSize, ord) ==
    IF Cardinality(current_group) >= maxSize \/ remaining = {}
    THEN <<current_group, remaining>>
    ELSE The({ IF group_connections[best_candidate] <= 0
               THEN <<current_group, remaining>>
               ELSE The({ Grow(current_group \cup {best_candidate},
                               remaining \ {best_candidate}, conn, comp, P, maxSize, ord)
                          : conn \in { [n \in remaining \ {best_candidate} |->
                                          group_connections[n]
                                          + edges(best_candidate, n, comp, P)] } })
               : best_candidate \in {FirstMax(remaining, group_connections, ord)} })

\* a wrong cache: a node starts with its total score, not with its edge to the seed
RECURSIVE Subgroups_mutant(_, _, _, _, _, _)
Subgroups_mutant(remaining, scores, comp, P, maxSize, ord) ==
    IF remaining = {} THEN <<>>
    ELSE The({ <<g[1]>> \o Subgroups_mutant(g[2], scores, comp, P, maxSize, ord)
               : g \in { Grow({seed}, remaining \ {seed},
                              [n \in remaining \ {seed} |-> scores[n]],
                              comp, P, maxSize, ord)
                         : seed \in {FirstMax(remaining, scores, ord)} } })

\* the outer while loop
RECURSIVE Subgroups(_, _, _, _, _, _)
Subgroups(remaining, scores, comp, P, maxSize, ord) ==
    IF remaining = {} THEN <<>>
    ELSE The({ <<g[1]>> \o Subgroups(g[2], scores, comp, P, maxSize, ord)
               : g \in { Grow({seed}, remaining \ {seed},
                              [n \in remaining \ {seed} |-> edges(seed, n, comp, P)],
                              comp, P, maxSize, ord)
                         : seed \in {FirstMax(remaining, scores, ord)} } })

_split_large_component(comp, P, maxSize, ord) ==
    IF Cardinality(comp) <= maxSize THEN <<comp>>
    ELSE IF comp = {} THEN <<>>
    ELSE The({ Subgroups(comp, scores, comp, P, maxSize, ord)
               : scores \in {node_scores(comp, P)} })

\* the loop of search_similar_matches over the components
RECURSIVE SplitComponents(_, _, _, _)
SplitComponents(comps, P, c, ord) ==
    IF c.max_group_size = <<>> \/ comps = <<>> THEN comps
    ELSE (IF Cardinality(Head(comps)) > c.max_group_size[1]
          THEN _split_large_component(Head(comps), P, c.max_group_size[1], ord)
          ELSE <<Head(comps)>>)
         \o SplitComponents(Tail(comps), P, c, ord)

----------------------------------------------------------------------------
(* Merge-Code Assigner of search_similar_matches *)

HexDigits == <<"0", "1", "2", "3", "4", "5", "6", "7", "8", "9", "A", "B", "C", "D", "E", "F">>

\* format(n, "X")
RECURSIVE ToHex(_)
ToHex(n) ==
    IF n < 16 THEN HexDigits[n + 1]
    ELSE ToHex(n \div 16) \o HexDigits[(n % 16) + 1]

Min(S) == CHOOSE x \in S : \A y \in S : x <= y

\* a wrong representative: the largest key of the component
merge_code_of_mutant(comp) == "C-" \o ToHex(Max(comp))

merge_code_of(comp) == "C-" \o ToHex(Min(comp))

\* merge_code_to_group after the loop over the components: the group number of
\* a merge code is the index of the last component that produced it
CodeGroup(comps, code) ==
    Max({0} \cup {i \in DOMAIN comps : merge_code_of(comps[i]) = code})

\* mapping.get(wb, ("C-" + format(wb, "X"), ...))
mapping(comps, wb) ==
    LET at == {i \in DOMAIN comps : wb \in comps[i]}
    IN IF at = {} THEN "C-" \o ToHex(wb) ELSE merge_code_of(comps[Max(at)])

\* the loop over df_matches; `extra` lists the merge codes that were not in
\* merge_code_to_group and got the next group numbers, in order
RECURSIVE BuildRows(_, _, _, _, _)
BuildRows(dfm, i, comps, extra, P) ==
    IF i > Len(dfm) THEN <<>>
    ELSE The(
           { <<[group_number |-> IF CodeGroup(comps, code) # 0 THEN CodeGroup(comps, code)
                                 ELSE Len(comps) + (CHOOSE j \in DOMAIN extra2 : extra2[j] = code),
                wb_sku |-> dfm[i].wb_sku,
                oz_sku |-> dfm[i].oz_sku,
                merge_code |-> code,
                match_score |-> dfm[i].match_score,
                similarity_score |-> similarity_score(P, dfm[i].wb_sku)]>>
             \o BuildRows(dfm, i + 1, comps, extra2, P)
             : <<code, extra2>> \in
                 { <<m, IF CodeGroup(comps, m) # 0 \/ m \in Range(extra)
                        THEN extra ELSE Append(extra, m)>>
                   : m \in {mapping(comps, dfm[i].wb_sku)} } })

\* out.sort_values(["match_score"], ascending=[False]) with the default,
\* unstable sort: the orders of the row positions it may produce
RECURSIVE SortOrders(_, _)
SortOrders(rows, I) ==
    IF I = {} THEN {<<>>}
    ELSE UNION { { <<m>> \o t : t \in SortOrders(rows, I \ {m}) }
                 : m \in {x \in I : \A y \in I : rows[y].match_score <= rows[x].match_score} }

\* drop_duplicates(subset=[wb_sku, oz_sku, oz_manufacturer_size], keep="first");
\* the size is a column of the oz_products_full row of oz_sku
RECURSIVE drop_duplicates(_, _)
drop_duplicates(rows, seen) ==
    IF rows = <<>> THEN <<>>
    ELSE LET k == <<Head(rows).wb_sku, Head(rows).oz_sku>>
         IN IF k \in seen THEN drop_duplicates(Tail(rows), seen)
            ELSE <<Head(rows)>> \o drop_duplicates(Tail(rows), seen \cup {k})

OutTables(rows) ==
    { drop_duplicates([i \in DOMAIN rows |-> rows[p[i]]], {}) : p \in SortOrders(rows, DOMAIN rows) }

\* all_wb: the seeds and candidates of df_pairs
all_wb(P) == {P[i].seed_wb_sku : i \in DOMAIN P} \cup {P[i].cand_wb_sku : i \in DOMAIN P}

\* an iteration order that changes from one call to the next
IterOrderMutant(run) ==
    IF run = 1 THEN iterOrder
    ELSE [i \in DOMAIN iterOrder |-> iterOrder[Len(iterOrder) + 1 - i]]

\* the set iteration order a run of the build uses
IterOrder(run) == iterOrder

\* the body of search_similar_matches for valid arguments
SimilarResult(S, c, run) ==
    \E P \in {ScoringQuery(S, c)} :
        /\ seeds' = S
        /\ cfg' = c
        /\ scored' = ScoredRows(S, c)
        /\ df_pairs' = P
        /\ IF S = {} \/ P = <<>>
           THEN components' = <<>> /\ df' = <<>> /\ out' = <<>>
           ELSE \E comps \in {SplitComponents(Components(P), P, c, IterOrder(run))} :
                \E keys \in {all_wb(P)} :
                \E J \in {joined(oz_barcodes(oz_products),
                                 wb_barcodes(wb_products,
                                     [k \in {wp.wb_sku : wp \in wb_products} |->
                                         IF k \in keys THEN 1 ELSE 0]))} :
                \E dfm \in QueryResults(J, <<>>, "wb") :
                \E rows \in {BuildRows(dfm, 1, comps, <<>>, P)} :
                    /\ components' = comps
                    /\ df' = dfm
                    /\ out' \in OutTables(rows)

----------------------------------------------------------------------------
(* The stores the resolvers are run on *)

OzProduct(k, bp) == [oz_sku |-> k, oz_vendor_code |-> k, barcode_primary |-> bp]
OzFull(k, L, fp) == [oz_vendor_code |-> k, barcodes |-> L, primary_barcode |-> fp]
WbProduct(k, L, p) == [wb_sku |-> k, barcodes |-> L, primary_barcode |-> p]

\* any Catalog-A product: its two primary barcodes and its list are independent
GeneralOz(k) ==
    { <<OzProduct(k, bp), F>> :
        bp \in {NULL} \cup Barcodes,
        F \in {{}} \cup { {OzFull(k, L, fp)} : L \in SUBSET Barcodes \ {{}},
                                                 fp \in {NULL} \cup Barcodes } }

\* a Catalog-A product whose primary barcodes agree and are listed
ConsistentOz(k) ==
    UNION { { <<OzProduct(k, p), {OzFull(k, L, p)}>> : p \in L } : L \in SUBSET Barcodes \ {{}} }

GeneralWb(k) ==
    { WbProduct(k, L, p) : L \in SUBSET Barcodes, p \in {NULL} \cup Barcodes }

ConsistentWb(k) ==
    UNION { { WbProduct(k, L, p) : p \in L } : L \in SUBSET Barcodes \ {{}} }

Stores ==
    { <<{o[1]}, o[2], {w}>> : o \in GeneralOz(1), w \in ConsistentWb(1) }
    \cup { <<{o[1]}, o[2], {w}>> : o \in ConsistentOz(1), w \in GeneralWb(1) }
    \cup { <<{o[1]}, o[2], {w1, w2}>> :
             o \in ConsistentOz(1), w1 \in ConsistentWb(1), w2 \in ConsistentWb(2) }
    \cup { <<{o1[1], o2[1]}, o1[2] \cup o2[2], {w}>> :
             o1 \in ConsistentOz(1), o2 \in ConsistentOz(2), w \in ConsistentWb(1) }

Init ==
    /\ \E s \in Stores :
        /\ oz_products = s[1]
        /\ oz_products_full = s[2]
        /\ wb_products = s[3]
    /\ punta_exists = FALSE
    /\ punta_google = {}
    /\ MatchIdle
    /\ NoPunta
    /\ ApiIdle
    /\ HelperIdle
    /\ ConIdle
    /\ CollIdle
    /\ SimIdle
    /\ DupIdle
    /\ pc = "idle"

\* the caller takes the returned rows; the engine keeps nothing between calls
Return ==
    /\ pc # "idle"
    /\ pc' = "idle"
    /\ inputs' = <<>>
    /\ limit' = <<>>
    /\ oz_rows' = {}
    /\ wb_rows' = {}
    /\ df' = <<>>
    /\ UNCHANGED <<storeVars, helperVars, conVars, collVars, apiVars, simVars, dupVars>>

Next == MatchesForOzSkus \/ MatchesForWbSkus \/ Return

Spec == Init /\ [][Next]_vars

----------------------------------------------------------------------------
(* Claims about the Barcode Normalizer and the Exact Match Resolver *)

Called == pc \in {"oz_skus", "wb_skus"}
Side == IF pc = "oz_skus" THEN "oz" ELSE "wb"

\* the normalized rows a returned row was built from
SourcePairs(r) ==
    {p \in oz_rows \X wb_rows :
        /\ p[1].oz_sku = r.oz_sku /\ p[2].wb_sku = r.wb_sku
        /\ p[1].barcode = r.barcode_hit /\ p[2].barcode = r.barcode_hit}

\* C1: a Match row built by a key-based resolver from a Catalog-A barcode row
\* and a Catalog-B barcode row of equal barcode has tier primary<->primary and
\* score 100 when both rows are primary, score 80 when exactly one is (tier
\* primary<->any if the Catalog-A row is the primary one, any<->primary if the
\* Catalog-B row is), and tier any<->any and score 60 when neither is.
C1_TierAndScore ==
    Called =>
        \A i \in DOMAIN df :
            /\ SourcePairs(df[i]) # {}
            /\ \A p \in SourcePairs(df[i]) :
                LET a == p[1].is_primary
                    b == p[2].is_primary
                IN /\ (a /\ b) => (df[i].matched_by = "primary<->primary" /\ df[i].match_score = 100)
                   /\ (a /\ ~b) => (df[i].matched_by = "primary<->any" /\ df[i].match_score = 80)
                   /\ (~a /\ b) => (df[i].matched_by = "any<->primary" /\ df[i].match_score = 80)
                   /\ (~a /\ ~b) => (df[i].matched_by = "any<->any" /\ df[i].match_score = 60)

\* one call returned rows of all four tiers
C1_Witness ==
    /\ Called
    /\ {df[i].matched_by : i \in DOMAIN df}
         = {"primary<->primary", "primary<->any", "any<->primary", "any<->any"}

\* the Match rows of input key k in the store: pairs of a Catalog-A and a
\* Catalog-B product with the barcode they share, each pair and barcode once
MatchesOf(k, side) ==
    {DfRow(m) : m \in {j \in joined(oz_barcodes(oz_products), wb_barcodes(wb_products, One)) :
                          InputKey(j, side) = k}}

\* the returned rows of input key k, in the order returned
RECURSIVE RowsOf(_, _, _)
RowsOf(s, k, side) ==
    IF s = <<>> THEN <<>>
    ELSE IF InputKey(Head(s), side) = k
         THEN <<Head(s)>> \o RowsOf(Tail(s), k, side)
         ELSE RowsOf(Tail(s), k, side)

\* s lists, without repetition, the first n rows of M in the order (score
\* DESC, opposite key ASC)
IsTopOf(s, M, n, side) ==
    /\ Len(s) = Min2(n, Cardinality(M))
    /\ \A i \in DOMAIN s : s[i] \in M
    /\ \A i, j \in DOMAIN s : i < j => (s[i] # s[j] /\ ~OrderedBefore(s[j], s[i], side))
    /\ \A m \in M \ Range(s) : \A i \in DOMAIN s : ~OrderedBefore(m, s[i], side)

\* C2: with a limit L > 0 the rows returned for each distinct input key are
\* exactly the first L rows (all when fewer) of that key's matches ordered by
\* score descending, then opposite key ascending; with no limit, or a limit
\* <= 0, every match row of every input key is returned.
C2_TopLPerKey ==
    Called =>
        \A k \in Range(inputs) :
            LET s == RowsOf(df, k, Side)
                M == MatchesOf(k, Side)
            IN IF limit # <<>> /\ limit[1] > 0
               THEN IsTopOf(s, M, limit[1], Side)
               ELSE Range(s) = M

\* the distinct (product, barcode, flag) rows of a normalized relation
OzPrimaryBarcodes(k) == {r.barcode : r \in {x \in oz_rows : x.oz_sku = k /\ x.is_primary}}
WbPrimaryBarcodes(k) == {r.barcode : r \in {x \in wb_rows : x.wb_sku = k /\ x.is_primary}}

\* the products whose barcodes the last call normalized
NormalizedOz == IF pc = "oz_skus" THEN oz_base(Range(inputs)) ELSE oz_products
NormalizedWb == IF pc = "oz_skus" THEN wb_products
                ELSE {w \in wb_products : w.wb_sku \in Range(inputs)}

\* C9: in both catalogs and both resolvers, the normalized rows of a product
\* whose authoritative primary barcode is not null hold exactly one primary
\* row, the row of that barcode, also when the barcode is not in the list.
C9_ExactlyOnePrimaryRow ==
    (Called /\ inputs # <<>>) =>
        /\ \A p \in NormalizedOz :
              p.barcode_primary # NULL => OzPrimaryBarcodes(p.oz_sku) = {p.barcode_primary}
        /\ \A w \in NormalizedWb :
              w.primary_barcode # NULL => WbPrimaryBarcodes(w.wb_sku) = {w.primary_barcode}

\* the barcodes oz_products_full / wb_products list for a product
OzListed(p) == UNION {f.barcodes : f \in FullRowsOf(p)}

\* C10: no product has more than one barcode value flagged primary, and a
\* primary row that is not from the product's list exists only for a non-null
\* primary barcode that the list lacks.
C10_AtMostOnePrimary ==
    (Called /\ inputs # <<>>) =>
        /\ \A p \in NormalizedOz :
              /\ Cardinality(OzPrimaryBarcodes(p.oz_sku)) <= 1
              /\ \A r \in {x \in oz_rows : x.oz_sku = p.oz_sku /\ x.barcode \notin OzListed(p)} :
                    r.is_primary /\ p.barcode_primary # NULL /\ r.barcode = p.barcode_primary
        /\ \A w \in NormalizedWb :
              /\ Cardinality(WbPrimaryBarcodes(w.wb_sku)) <= 1
              /\ \A r \in {x \in wb_rows : x.wb_sku = w.wb_sku} : r.barcode \in w.barcodes

----------------------------------------------------------------------------
(* The scoring query on one seed and one candidate: SpecScore *)

WbSim(k, cat, gender, L) ==
    [wb_sku |-> k, seller_category |-> cat, gender |-> gender,
     barcodes |-> L, primary_barcode |-> k]

\* the values of an attribute on the seed and on the candidate
SeasonCases == {<<NULL, 1>>, <<1, 1>>, <<1, 2>>}
ColorCases == {<<NULL, NULL>>, <<1, 1>>, <<1, 2>>}
FastenerCases == {<<1, NULL>>, <<1, 1>>}
MaterialCases == {<<NULL, 1>>, <<1, 1>>, <<1, 2>>}
MegaCases == {<<NULL, NULL>>, <<EMPTY, EMPTY>>, <<1, 1>>, <<1, 2>>}
BestCases == {<<EMPTY, EMPTY>>, <<1, 1>>, <<1, NULL>>}
NewCases == {<<NULL, 1>>, <<1, 1>>}
ModelCases == {<<EMPTY, EMPTY>>, <<1, 1>>, <<1, 2>>}

ScoreStores ==
    { { PuntaRow(10, se[1], co[1], fa[1], ma[1], me[1], be[1], ne[1], mo[1]),
        PuntaRow(11, se[2], co[2], fa[2], ma[2], me[2], be[2], ne[2], mo[2]) } :
        se \in SeasonCases, co \in ColorCases, fa \in FastenerCases, ma \in MaterialCases,
        me \in MegaCases, be \in BestCases, ne \in NewCases, mo \in ModelCases }

\* configurations that pass validate()
ScoreConfigs ==
    { DefaultConfig,
      [DefaultConfig EXCEPT !.mega_last_bonus = 0],
      [DefaultConfig EXCEPT !.max_score = 320],
      [DefaultConfig EXCEPT !.no_last_penalty_multiplier = 100, !.min_score_threshold = 5000] }

InitScore ==
    /\ oz_products = {}
    /\ oz_products_full = {}
    /\ wb_products = {WbSim(10, 1, 1, {10}), WbSim(11, 1, 1, {11})}
    /\ punta_exists = TRUE
    /\ punta_google \in ScoreStores
    /\ MatchIdle
    /\ NoPunta
    /\ ApiIdle
    /\ HelperIdle
    /\ ConIdle
    /\ CollIdle
    /\ SimIdle
    /\ DupIdle
    /\ pc = "idle"

\* the scoring query of search_similar_matches([10], config=c)
ScorePairs ==
    \E c \in ScoreConfigs :
        /\ pc = "idle"
        /\ validate(c)
        /\ pc' = "scored"
        /\ cfg' = c
        /\ seeds' = {10}
        /\ scored' = ScoredRows({10}, c)
        /\ df_pairs' = ScoringQuery({10}, c)
        /\ UNCHANGED <<storeVars, helperVars, conVars, collVars, apiVars, matchVars, dupVars, component, max_size, components,
                       out, prev_out, calls, iterOrder>>

NextScore == ScorePairs

SpecScore == InitScore /\ [][NextScore]_vars

\* C7, C8: what the claims say of a pair, from the attribute values alone
BothSetEqual(a, b) == a # NULL /\ b # NULL /\ a = b
TierMatches(a, b) == a # NULL /\ a # EMPTY /\ b # NULL /\ b # EMPTY /\ a = b
MegaMatches(r) == TierMatches(r.seed.mega_last, r.cand.mega_last)
BestMatches(r) == TierMatches(r.seed.best_last, r.cand.best_last)
NewMatches(r) == TierMatches(r.seed.new_last, r.cand.new_last)
SomeTierMatches(r) == MegaMatches(r) \/ BestMatches(r) \/ NewMatches(r)

SeasonTerm(r) ==
    IF r.seed.season = NULL \/ r.cand.season = NULL THEN 0
    ELSE IF r.seed.season = r.cand.season THEN cfg.season_match_bonus
    ELSE cfg.season_mismatch_penalty

LastBonus(r) ==
    IF MegaMatches(r) THEN cfg.mega_last_bonus
    ELSE IF BestMatches(r) THEN cfg.best_last_bonus
    ELSE IF NewMatches(r) THEN cfg.new_last_bonus
    ELSE 0

Accumulated(r) ==
    cfg.base_score + SeasonTerm(r)
    + (IF BothSetEqual(r.seed.color, r.cand.color) THEN cfg.color_match_bonus ELSE 0)
    + (IF BothSetEqual(r.seed.material_short, r.cand.material_short) THEN cfg.material_match_bonus ELSE 0)
    + (IF BothSetEqual(r.seed.lacing_type, r.cand.lacing_type) THEN cfg.fastener_match_bonus ELSE 0)
    + (IF TierMatches(r.seed.model_name, r.cand.model_name) THEN cfg.model_match_bonus ELSE 0)
    + LastBonus(r)

\* C7: for a seed/candidate pair some last tier of which matches, final_score is
\* min(max_score, base_score + season term + color, material, fastener and model
\* bonuses + last bonus): the season term is the match bonus, the mismatch
\* penalty or 0; each other bonus counts only when both sides are set and equal;
\* the last bonus is that of the first matching tier of mega, best, new, a null
\* or empty tag never matching.
C7_FinalScoreWithLast ==
    pc = "scored" =>
        \A r \in scored :
            SomeTierMatches(r) =>
                r.final_score = Min2(cfg.max_score * 100, Accumulated(r) * 100)

\* C8: for every valid configuration the no-last multiplier is applied to the
\* whole accumulated score if and only if none of the tiers mega, best, new
\* matched, before the max_score cap and before the threshold filter; a pair
\* with a matching tier is never multiplied.
C8_MultiplierIffNoLast ==
    pc = "scored" =>
        \A r \in scored :
            /\ r.final_score =
                 Min2(cfg.max_score * 100,
                      IF SomeTierMatches(r)
                      THEN Accumulated(r) * 100
                      ELSE Accumulated(r) * cfg.no_last_penalty_multiplier)
            /\ (r.final_score >= cfg.min_score_threshold)
                 <=> (\E i \in DOMAIN df_pairs :
                         /\ df_pairs[i].seed_wb_sku = r.seed_wb_sku
                         /\ df_pairs[i].cand_wb_sku = r.cand_wb_sku)

----------------------------------------------------------------------------
(* search_similar_matches and _split_large_component: SpecSim *)

MaxGroupSize == 3    \* max_size of a direct _split_large_component call is 1..MaxGroupSize
MaxPairRows == 4      \* a pair table given to the clusterer alone has at most this many rows
MaxSeeds == 2        \* a similarity call gets at most this many seed keys

WbKeys == {10, 11, 26, 100}

\* the set iteration orders considered for the build
IterOrders == {<<10, 11, 26, 100>>, <<100, 26, 11, 10>>}

\* punta_google rows of the kinds A (full), B (other season, no model)
PuntaA(k) == PuntaRow(k, 1, 1, 1, 1, 1, NULL, NULL, 1)
PuntaB(k) == PuntaRow(k, 2, 1, 1, 1, 1, NULL, NULL, EMPTY)

PuntaTables ==
    { {r10, r26} \cup r11 \cup r100 :
        r10 \in {PuntaA(10)},
        r11 \in {{PuntaA(11)}, {PuntaB(11)}, {PuntaA(11), PuntaB(11)}},
        r26 \in {PuntaA(26), PuntaB(26)},
        r100 \in {{PuntaA(100)}, {}} }

WbTables ==
    { {WbSim(10, 1, 1, {10}), WbSim(11, 1, 1, {11}), WbSim(26, 1, 1, {26, 27}),
       WbSim(100, cat, 1, {100})} : cat \in {1, 2} }

\* Catalog-A products that match some of the Catalog-B products
OzTables ==
    { <<{OzProduct(1, 10), OzProduct(2, 26)},
        {OzFull(1, {10, 11}, 10), OzFull(2, {26, 27}, 26)}>>,
      <<{OzProduct(1, 11), OzProduct(2, 100)},
        {OzFull(1, {11, 26}, 11), OzFull(2, {100}, 100)}>> }

SimConfigs ==
    { DefaultConfig,
      [DefaultConfig EXCEPT !.min_score_threshold = 5000, !.max_group_size = <<2>>],
      [DefaultConfig EXCEPT !.min_score_threshold = 5000, !.max_candidates_per_seed = 1,
                            !.max_group_size = <<>>],
      [DefaultConfig EXCEPT !.max_group_size = <<1>>],
      [DefaultConfig EXCEPT !.base_score = 700],
      [DefaultConfig EXCEPT !.base_score = 0] }

SeedSets == {S \in SUBSET WbKeys : Cardinality(S) <= MaxSeeds}

\* pair tables for a direct call of _split_large_component: per pair of keys no
\* row, a row a -> b, a row b -> a, or (for the first pair) both
EdgeRows(a, b) ==
    { {},
      {[seed_wb_sku |-> a, cand_wb_sku |-> b, final_score |-> 30000]},
      {[seed_wb_sku |-> b, cand_wb_sku |-> a, final_score |-> 40000]} }

PairTables ==
    { SortPairs(e1 \cup e2 \cup e3 \cup e4 \cup e5 \cup e6) :
        e1 \in EdgeRows(10, 11)
                 \cup {{[seed_wb_sku |-> 10, cand_wb_sku |-> 11, final_score |-> 30000],
                        [seed_wb_sku |-> 11, cand_wb_sku |-> 10, final_score |-> 40000]}},
        e2 \in EdgeRows(10, 26), e3 \in EdgeRows(10, 100),
        e4 \in EdgeRows(11, 26), e5 \in EdgeRows(11, 100), e6 \in EdgeRows(26, 100) }

InitSimStore ==
    /\ \E o \in OzTables : oz_products = o[1] /\ oz_products_full = o[2]
    /\ wb_products \in WbTables
    /\ \/ punta_exists = TRUE /\ punta_google \in PuntaTables
       \/ punta_exists = FALSE /\ punta_google = {}
    /\ MatchIdle
    /\ NoPunta
    /\ ApiIdle
    /\ HelperIdle
    /\ ConIdle
    /\ CollIdle
    /\ DupIdle
    /\ cfg = <<>> /\ seeds = {} /\ scored = {} /\ df_pairs = <<>>
    /\ component = {} /\ max_size = <<>> /\ components = <<>>
    /\ out = <<>> /\ prev_out = <<>> /\ calls = 0
    /\ iterOrder \in IterOrders
    /\ pc = "idle"

InitSplitArgs ==
    /\ oz_products = {} /\ oz_products_full = {} /\ wb_products = {}
    /\ punta_exists = FALSE /\ punta_google = {}
    /\ MatchIdle
    /\ NoPunta
    /\ ApiIdle
    /\ HelperIdle
    /\ ConIdle
    /\ CollIdle
    /\ DupIdle
    /\ cfg = <<>> /\ seeds = {} /\ scored = {}
    /\ df_pairs \in PairTables
    /\ component \in SUBSET WbKeys \ {{}}
    /\ max_size \in {<<m>> : m \in 1..MaxGroupSize}
    /\ components = <<>>
    /\ out = <<>> /\ prev_out = <<>> /\ calls = 0
    /\ iterOrder \in IterOrders
    /\ pc = "split_args"

\* a pair table for the union-find loop alone
InitClusterArgs ==
    /\ oz_products = {} /\ oz_products_full = {} /\ wb_products = {}
    /\ punta_exists = FALSE /\ punta_google = {}
    /\ MatchIdle
    /\ NoPunta
    /\ ApiIdle
    /\ HelperIdle
    /\ ConIdle
    /\ CollIdle
    /\ DupIdle
    /\ cfg = <<>> /\ seeds = {} /\ scored = {}
    /\ df_pairs \in {P \in PairTables : Len(P) <= MaxPairRows}
    /\ component = {}
    /\ max_size = <<>>
    /\ components = <<>>
    /\ out = <<>> /\ prev_out = <<>> /\ calls = 0
    /\ iterOrder = <<>>
    /\ pc = "cluster_args"

InitSim == InitSimStore \/ InitSplitArgs \/ InitClusterArgs

\* search_similar_matches(S, config=c)
SearchSimilarMatches ==
    \E S \in SeedSets, c \in SimConfigs :
        /\ pc = "idle"
        /\ validate(c)
        /\ pc' = "similar"
        /\ SimilarResult(S, c, 1)
        /\ calls' = 1
        /\ prev_out' = <<>>
        /\ UNCHANGED <<storeVars, helperVars, conVars, collVars, apiVars, inputs, limit, oz_rows, wb_rows, dupVars,
                       component, max_size, iterOrder>>

\* cfg.validate() raises
SimilarityRejected ==
    \E S \in SeedSets, c \in SimConfigs :
        /\ pc = "idle"
        /\ ~validate(c)
        /\ pc' = "sim_error"
        /\ seeds' = S
        /\ cfg' = c
        /\ UNCHANGED <<storeVars, helperVars, conVars, collVars, apiVars, matchVars, dupVars, scored, df_pairs, component, max_size,
                       components, out, prev_out, calls, iterOrder>>

\* the same call once more, on the same store
SearchSimilarAgain ==
    /\ pc = "similar"
    /\ calls = 1
    /\ pc' = "similar"
    /\ SimilarResult(seeds, cfg, 2)
    /\ calls' = 2
    /\ prev_out' = out
    /\ UNCHANGED <<storeVars, helperVars, conVars, collVars, apiVars, inputs, limit, oz_rows, wb_rows, dupVars,
                   component, max_size, iterOrder>>

ReturnSim ==
    /\ pc \in {"similar", "sim_error"}
    /\ pc' = "idle"
    /\ cfg' = <<>> /\ seeds' = {} /\ scored' = {} /\ df_pairs' = <<>>
    /\ components' = <<>> /\ out' = <<>> /\ prev_out' = <<>> /\ calls' = 0
    /\ df' = <<>>
    /\ UNCHANGED <<storeVars, helperVars, conVars, collVars, apiVars, inputs, limit, oz_rows, wb_rows, dupVars,
                   component, max_size, iterOrder>>

\* _split_large_component(component, df_pairs, max_size)
SplitLargeComponent ==
    /\ pc = "split_args"
    /\ pc' = "split"
    /\ components' = _split_large_component(component, df_pairs, max_size[1], IterOrder(1))
    /\ UNCHANGED <<storeVars, helperVars, conVars, collVars, apiVars, matchVars, dupVars, cfg, seeds, scored, df_pairs, component,
                   max_size, out, prev_out, calls, iterOrder>>

\* the rows of a pair table in every order
RowOrders(P) ==
    { [i \in DOMAIN P |-> P[f[i]]] :
        f \in {g \in [DOMAIN P -> DOMAIN P] : \A i, j \in DOMAIN P : g[i] = g[j] => i = j} }

\* the union-find loop and the extraction of the components, on a pair table
\* whose rows come in any order
ConnectivityClusterer ==
    /\ pc = "cluster_args"
    /\ \E P \in RowOrders(df_pairs) :
          /\ df_pairs' = P
          /\ components' = Components(P)
    /\ pc' = "clustered"
    /\ UNCHANGED <<storeVars, helperVars, conVars, collVars, apiVars, matchVars, dupVars, cfg, seeds, scored,
                   component, max_size, out, prev_out, calls, iterOrder>>

NextSim ==
    \/ SearchSimilarMatches
    \/ SimilarityRejected
    \/ SearchSimilarAgain
    \/ ReturnSim
    \/ SplitLargeComponent
    \/ ConnectivityClusterer

SpecSim == InitSim /\ [][NextSim]_vars

----------------------------------------------------------------------------
(* Claims about the Component Bounder, the clustering and the merge codes *)

\* C3: for every component, pair table and max_size >= 1, _split_large_component
\* returns non-empty, pairwise disjoint subgroups of size <= max_size whose union
\* is the component; a component of size <= max_size comes back as one unchanged
\* group; with max_group_size = None search_similar_matches splits nothing, and
\* otherwise no group_number of its result covers more than max_group_size
\* distinct Catalog-B keys.
C3_SplitPartition ==
    /\ pc = "split" =>
          /\ \A i \in DOMAIN components :
                /\ components[i] # {}
                /\ Cardinality(components[i]) <= max_size[1]
          /\ \A i, j \in DOMAIN components :
                i # j => components[i] \cap components[j] = {}
          /\ UNION {components[i] : i \in DOMAIN components} = component
          /\ Cardinality(component) <= max_size[1] => components = <<component>>
    /\ (pc = "similar" /\ df_pairs # <<>>) =>
          /\ cfg.max_group_size = <<>> =>
                \A i \in DOMAIN df_pairs : \E k \in DOMAIN components :
                    {df_pairs[i].seed_wb_sku, df_pairs[i].cand_wb_sku} \subseteq components[k]
          /\ cfg.max_group_size # <<>> =>
                \A g \in {out[i].group_number : i \in DOMAIN out} :
                    Cardinality({out[i].wb_sku : i \in {j \in DOMAIN out : out[j].group_number = g}})
                        <= cfg.max_group_size[1]

\* a component larger than max_size was split into several subgroups, one of
\* them with more than one member
C3_Witness ==
    /\ pc = "split"
    /\ Cardinality(component) > max_size[1]
    /\ Len(components) >= 2
    /\ \E i \in DOMAIN components : Cardinality(components[i]) >= 2

\* the claimed columns of a result table
Assignments(t) ==
    { <<t[i].wb_sku, t[i].oz_sku, t[i].similarity_score, t[i].merge_code, t[i].group_number>>
        : i \in DOMAIN t }

HexOf == (10 :> "A") @@ (11 :> "B") @@ (26 :> "1A") @@ (100 :> "64")

\* the (sub)components that hold a key
Holders(wb) == {k \in DOMAIN components : wb \in components[k]}

\* C6: in the result of search_similar_matches every row belongs to exactly one
\* merge group; its merge_code is 'C-' and the uppercase hexadecimal of the
\* minimum key of the (sub)component of its Catalog-B key; rows of one
\* (sub)component share the code and rows of different ones differ in it.
C6_MergeCode ==
    pc = "similar" =>
        /\ \A i \in DOMAIN out :
              /\ Cardinality(Holders(out[i].wb_sku)) = 1
              /\ \A k \in Holders(out[i].wb_sku) :
                    out[i].merge_code = "C-" \o HexOf[Min(components[k])]
        /\ \A i, j \in DOMAIN out :
              (Holders(out[i].wb_sku) = Holders(out[j].wb_sku))
                  <=> (out[i].merge_code = out[j].merge_code)

\* a result with two rows of one group that differ in the key, one of them not
\* the representative, and a row of another group
C6_Witness ==
    /\ pc = "similar"
    /\ \E i, j, k \in DOMAIN out :
          /\ out[i].wb_sku # out[j].wb_sku
          /\ out[i].merge_code = out[j].merge_code
          /\ out[k].merge_code # out[i].merge_code
          /\ out[k].merge_code \in {"C-1A", "C-64"}

-----------------------------------------------------------------------------
(* mark_duplicate_sizes (matching_helpers.py).  A DataFrame is the set of  *)
(* its column names and the sequence of its rows; a row carries its index  *)
(* label in the field label.  A merge code "head-tail" followed by the     *)
(* suffixes "_n" is kept as its parts: head, tail and the sequence of the  *)
(* n.  A size is NULL (NaN), EMPTY (a blank string) or a number.           *)

MaxDupRows == 3      \* a table given to mark_duplicate_sizes has at most this many rows

\* the head of a code that holds no '-'
NoDash == ""

MergeCode(head, tail) == [head |-> head, tail |-> tail, suffix |-> <<>>]

\* group_col = grouping_column if grouping_column else "group_number"
group_col(grouping_column) ==
    IF grouping_column # <<>> THEN grouping_column[1] ELSE "group_number"

\* row[group_col]
GroupVal(row, col) == IF col = "wb_sku" THEN row.wb_sku ELSE row.group_number

\* required_cols, and the test that all of them are columns of df
required_cols(grouping_column) ==
    {"oz_manufacturer_size", "merge_code", "match_score", group_col(grouping_column)}

\* ascending order of oz_manufacturer_size, NaN last
SizeBefore(a, b) == a # NULL /\ (b = NULL \/ a < b)

\* the order of sort_values([group_col, "oz_manufacturer_size", "match_score"],
\* ascending=[True, True, False])
DupBefore(a, b, col) ==
    \/ GroupVal(a, col) < GroupVal(b, col)
    \/ /\ GroupVal(a, col) = GroupVal(b, col)
       /\ SizeBefore(a.oz_manufacturer_size, b.oz_manufacturer_size)
    \/ /\ GroupVal(a, col) = GroupVal(b, col)
       /\ a.oz_manufacturer_size = b.oz_manufacturer_size
       /\ a.match_score > b.match_score

\* df.sort_values(...) on several keys is stable: rows that tie keep their order
sort_values(rows, col) ==
    LET n == Len(rows)
        rank(i) == 1 + Cardinality({j \in 1..n :
                          \/ DupBefore(rows[j], rows[i], col)
                          \/ ~DupBefore(rows[i], rows[j], col) /\ j < i})
    IN  [k \in 1..n |-> rows[CHOOSE i \in 1..n : rank(i) = k]]

\* df.get("group_number", ...).max() + 1 if the column is there, else 1
next_group_number_of(dframe) ==
    IF "group_number" \in dframe.columns
    THEN Max({dframe.rows[i].group_number : i \in DOMAIN dframe.rows}) + 1
    ELSE 1

\* a wrong test: a blank size counts as known
KnownSize_mutant(size) == size # NULL

\* pd.notna(size) and str(size).strip()
KnownSize(size) == size # NULL /\ size # EMPTY

\* mask: the positions of the rows of the sorted table with this grouping
\* value and this size
same_size_items(rows, col, group_val, size) ==
    {j \in DOMAIN rows : /\ GroupVal(rows[j], col) = group_val
                         /\ rows[j].oz_manufacturer_size = size}

\* list(same_size_items.index).index(idx) + 1: the place of the first row of
\* the bucket that carries the label idx
position(rows, items, idx) ==
    Cardinality({j \in items : j <= Min({k \in items : rows[k].label = idx})})

\* the code of the first item of a bucket
primary_code(code, primary_prefix) ==
    IF code.head # NoDash /\ code.head = primary_prefix THEN code
    ELSE IF code.head # NoDash THEN [code EXCEPT !.head = primary_prefix]
    ELSE code

\* the code of a later item of a bucket
duplicate_code(code, duplicate_prefix, pos, total_duplicates) ==
    [head |-> duplicate_prefix,
     tail |-> code.tail,
     suffix |-> IF total_duplicates > 2 THEN code.suffix \o <<pos>> ELSE code.suffix]

\* the loop over df.iterrows(), from row i on
RECURSIVE MarkRows(_, _, _, _, _)
MarkRows(rows, i, next_group_number, args, has_group_number) ==
    IF i > Len(rows) THEN <<>>
    ELSE
        LET row == rows[i]
            col == group_col(args.grouping_column)
            original_group_num == IF has_group_number THEN row.group_number ELSE 1
            items == same_size_items(rows, col, GroupVal(row, col), row.oz_manufacturer_size)
            pos == position(rows, items, row.label)
        IN  IF KnownSize(row.oz_manufacturer_size) /\ pos # 1
            THEN <<[row EXCEPT
                      !.merge_code = duplicate_code(row.merge_code, args.duplicate_prefix,
                                                    pos, Cardinality(items)),
                      !.group_number = next_group_number]>>
                 \o MarkRows(rows, i + 1, next_group_number + 1, args, has_group_number)
            ELSE <<[row EXCEPT
                      !.merge_code = IF KnownSize(row.oz_manufacturer_size)
                                     THEN primary_code(row.merge_code, args.primary_prefix)
                                     ELSE row.merge_code,
                      !.group_number = original_group_num]>>
                 \o MarkRows(rows, i + 1, next_group_number, args, has_group_number)

mark_duplicate_sizes(dframe, args) ==
    IF dframe.rows = <<>> THEN dframe
    ELSE IF ~(required_cols(args.grouping_column) \subseteq dframe.columns) THEN dframe
    ELSE [columns |-> dframe.columns \cup {"group_number"},
          rows |-> MarkRows(sort_values(dframe.rows, group_col(args.grouping_column)), 1,
                            next_group_number_of(dframe), args,
                            "group_number" \in dframe.columns)]

-----------------------------------------------------------------------------
(* The duplicate marker on small tables *)

DupColumns == {"oz_sku", "wb_sku", "group_number", "oz_manufacturer_size",
               "merge_code", "match_score"}

DupWbSkus == {10, 11}
DupSizes == {NULL, EMPTY, 38, 39}
DupScores == {80, 85, 100}

\* what a result row holds before the merge fields are added
DupCells == [wb_sku : DupWbSkus, oz_manufacturer_size : DupSizes, match_score : DupScores]

\* index labels: a RangeIndex, one label on every row, two labels in turn
LabelVectors(n) ==
    {[i \in 1..n |-> i - 1], [i \in 1..n |-> 0], [i \in 1..n |-> (i - 1) % 2]}

\* the three kinds of table: the merge fields of add_merge_fields (one code
\* 'B-hex' and one group number per wb_sku, numbered in the order of the
\* codes), one similarity group that holds every row, and the codes of
\* add_merge_fields on a table without a group_number column
DupKinds == {"basic", "cluster", "nogroup"}

DupRowOf(cells, labels, kind, i) ==
    [label |-> labels[i],
     oz_sku |-> i,
     wb_sku |-> cells[i].wb_sku,
     oz_manufacturer_size |-> cells[i].oz_manufacturer_size,
     match_score |-> cells[i].match_score,
     merge_code |-> IF kind = "cluster"
                    THEN MergeCode("C", ToHex(Min(DupWbSkus)))
                    ELSE MergeCode("B", ToHex(cells[i].wb_sku)),
     group_number |-> IF kind = "cluster" THEN 1
                      ELSE IF kind = "nogroup" THEN NULL
                      ELSE 1 + Cardinality({w \in {cells[j].wb_sku : j \in DOMAIN cells} :
                                               w < cells[i].wb_sku})]

\* the tables of at most maxRows rows
DupTables(maxRows) ==
    { [columns |-> IF kind = "nogroup" THEN DupColumns \ {"group_number"} ELSE DupColumns,
       rows |-> [i \in DOMAIN cells |-> DupRowOf(cells, labels, kind, i)]] :
        <<cells, labels, kind>> \in
            UNION { [1..n -> DupCells] \X LabelVectors(n) \X DupKinds : n \in 0..maxRows } }

\* tables of four rows: one wb_sku, two sizes, two rows of each size
TwoSizeTables ==
    { [columns |-> IF kind = "nogroup" THEN DupColumns \ {"group_number"} ELSE DupColumns,
       rows |-> [i \in 1..4 |->
                   DupRowOf([j \in 1..4 |-> [wb_sku |-> 10,
                                             oz_manufacturer_size |-> IF j <= 2 THEN 38 ELSE 39,
                                             match_score |-> scores[j]]],
                            [j \in 1..4 |-> j - 1], kind, i)]] :
        scores \in [1..4 -> {80, 100}], kind \in DupKinds }

InitDup ==
    /\ oz_products = {} /\ oz_products_full = {} /\ wb_products = {}
    /\ punta_exists = FALSE /\ punta_google = {}
    /\ MatchIdle
    /\ NoPunta
    /\ ApiIdle
    /\ HelperIdle
    /\ ConIdle
    /\ CollIdle
    /\ SimIdle
    /\ dup_in \in DupTables(MaxDupRows) \cup TwoSizeTables
    /\ dup_args = <<>>
    /\ dup_out = <<>>
    /\ pc = "dup_args"

\* mark_duplicate_sizes(df, primary_prefix, "D", grouping_column)
MarkDuplicateSizes ==
    \E primary_prefix \in {"B", "C"}, grouping_column \in {<<>>, <<"wb_sku">>} :
        \E args \in {[grouping_column |-> grouping_column,
                      primary_prefix |-> primary_prefix, duplicate_prefix |-> "D"]} :
            /\ pc = "dup_args"
            /\ pc' = "dup"
            /\ dup_args' = args
            /\ dup_out' = mark_duplicate_sizes(dup_in, args)
            /\ UNCHANGED <<storeVars, helperVars, conVars, collVars, apiVars, matchVars, simVars, dup_in>>

\* the caller takes the marked table
ReturnDup ==
    /\ pc = "dup"
    /\ pc' = "idle"
    /\ dup_in' = <<>>
    /\ dup_args' = <<>>
    /\ dup_out' = <<>>
    /\ UNCHANGED <<storeVars, helperVars, conVars, collVars, apiVars, matchVars, simVars>>

NextDup == MarkDuplicateSizes \/ ReturnDup

SpecDup == InitDup /\ [][NextDup]_vars

\* C4: the rows of the input and of the output are told apart by oz_sku
DupMarked ==
    /\ pc = "dup"
    /\ dup_in.rows # <<>>
    /\ required_cols(dup_args.grouping_column) \subseteq dup_in.columns

Bucket(r) ==
    {q \in Range(dup_in.rows) :
        /\ GroupVal(q, group_col(dup_args.grouping_column))
               = GroupVal(r, group_col(dup_args.grouping_column))
        /\ q.oz_manufacturer_size = r.oz_manufacturer_size}

OutCode(r) ==
    (CHOOSE o \in Range(dup_out.rows) : o.oz_sku = r.oz_sku).merge_code

\* C4: for every table given to mark_duplicate_sizes, whatever its row order
\* and its row labels, and every bucket of N > 1 rows of one grouping value and
\* one known size: exactly one row of the bucket ends with the primary prefix
\* and it has the maximum match_score of the bucket; the other N - 1 rows end
\* with the duplicate prefix; for N = 2 the duplicate has no numeric suffix, for
\* N > 2 the duplicates carry the suffixes _2 .. _N, each once, in descending
\* order of score.
C4_OnePrimaryPerBucket ==
    DupMarked =>
        \A r \in Range(dup_in.rows) :
            (KnownSize(r.oz_manufacturer_size) /\ Cardinality(Bucket(r)) > 1) =>
                LET N == Cardinality(Bucket(r))
                    prim == {q \in Bucket(r) : OutCode(q).head = dup_args.primary_prefix}
                    dups == Bucket(r) \ prim
                IN  /\ Cardinality(prim) = 1
                    /\ \A q \in prim :
                          q.match_score = Max({x.match_score : x \in Bucket(r)})
                    /\ \A q \in dups : OutCode(q).head = dup_args.duplicate_prefix
                    /\ N = 2 => \A q \in dups : OutCode(q).suffix = <<>>
                    /\ N > 2 =>
                          /\ {OutCode(q).suffix : q \in dups} = {<<k>> : k \in 2..N}
                          /\ \A q1, q2 \in dups :
                                q1.match_score > q2.match_score
                                    => OutCode(q1).suffix[1] < OutCode(q2).suffix[1]

-----------------------------------------------------------------------------
(* The resolver modes by barcode and by external code, and the mapping     *)
(* source (matching.py, matching_query.py, matching_sql.py).  A nullable   *)
(* BOOLEAN column is <<>> (NULL) or <<b>>; the punta columns of a row are  *)
(* <<>> when the query has no such columns.                                *)

BLANK == -2          \* an input string of blanks only
NONNUM == -3         \* a non-empty input string that is no decimal number

\* _normalize_barcodes: drop None, strip, drop what is empty then
RECURSIVE _normalize_barcodes(_)
_normalize_barcodes(tokens) ==
    IF tokens = <<>> THEN <<>>
    ELSE IF Head(tokens) \in {NULL, EMPTY, BLANK}
         THEN _normalize_barcodes(Tail(tokens))
         ELSE <<Head(tokens)>> \o _normalize_barcodes(Tail(tokens))

\* CAST(x AS UBIGINT) succeeds on every row of inputs
CastsToUBigint(tokens) == \A i \in DOMAIN tokens : tokens[i] > 0

\* SQL AND, OR, NOT on nullable BOOLEANs
And3(a, b) ==
    IF a = <<FALSE>> \/ b = <<FALSE>> THEN <<FALSE>>
    ELSE IF a = <<>> \/ b = <<>> THEN <<>>
    ELSE <<TRUE>>

Or3(a, b) ==
    IF a = <<TRUE>> \/ b = <<TRUE>> THEN <<TRUE>>
    ELSE IF a = <<>> \/ b = <<>> THEN <<>>
    ELSE <<FALSE>>

Not3(a) == IF a = <<>> THEN <<>> ELSE <<~a[1]>>

\* CASE ... END AS matched_by: a WHEN is taken only when its condition is TRUE
matched_by3(o, w) ==
    IF And3(o, w) = <<TRUE>> THEN "primary<->primary"
    ELSE IF And3(o, Not3(w)) = <<TRUE>> THEN "primary<->any"
    ELSE IF And3(Not3(o), w) = <<TRUE>> THEN "any<->primary"
    ELSE "any<->any"

\* CASE ... END AS match_score
match_score3(o, w) ==
    IF And3(o, w) = <<TRUE>> THEN 100
    ELSE IF Or3(o, w) = <<TRUE>> THEN 80
    ELSE 60

\* CTE punta_map: punta_barcodes LEFT JOIN punta_products_codes ON external_code
punta_map ==
    UNION { IF \E c \in punta_products_codes : c.external_code = pb.external_code
            THEN { [barcode |-> pb.barcode, external_code |-> pb.external_code,
                    collection |-> c.collection] :
                     c \in {x \in punta_products_codes : x.external_code = pb.external_code} }
            ELSE { [barcode |-> pb.barcode, external_code |-> pb.external_code,
                    collection |-> NULL] }
            : pb \in punta_barcodes }

\* LEFT JOIN punta_map pm ON pm.barcode = COALESCE(<primary barcode>, <barcode>):
\* the (external_code, collection) of the rows it joins, one NULL row if none
pm_rows(primary, barcode) ==
    LET key == IF primary # NULL THEN primary ELSE barcode
        hit == {m \in punta_map : key # NULL /\ m.barcode = key}
    IN  IF hit = {} THEN { [external_code |-> NULL, collection |-> NULL] }
        ELSE { [external_code |-> m.external_code, collection |-> m.collection] : m \in hit }

\* PUNTA_SELECT over the two joins; no such columns without the mapping source
PuntaCols(o, w, enabled) ==
    IF ~enabled THEN {<<>>}
    ELSE { <<[punta_collection_oz |-> a.collection,
              punta_external_code_oz |-> a.external_code,
              punta_collection_wb |-> b.collection,
              punta_external_code_wb |-> b.external_code,
              punta_external_equal |->
                  IF a.external_code = NULL \/ b.external_code = NULL THEN <<>>
                  ELSE <<a.external_code = b.external_code>>]>> :
             a \in pm_rows(o.oz_primary_barcode, o.barcode),
             b \in pm_rows(w.wb_primary_barcode, w.barcode) }

\* the NULL-extended side of a LEFT JOIN
NullOz == [oz_sku |-> NULL, barcode |-> NULL, is_primary |-> <<>>, oz_primary_barcode |-> NULL]
NullWb == [wb_sku |-> NULL, barcode |-> NULL, is_primary |-> <<>>, wb_primary_barcode |-> NULL]

Oz3(o) == [oz_sku |-> o.oz_sku, barcode |-> o.barcode, is_primary |-> <<o.is_primary>>,
           oz_primary_barcode |-> o.oz_primary_barcode]
Wb3(w) == [wb_sku |-> w.wb_sku, barcode |-> w.barcode, is_primary |-> <<w.is_primary>>,
           wb_primary_barcode |-> w.wb_primary_barcode]

\* the SELECT list of CTE joined for one joined pair
MatchRows(input, barcode_hit, o, w, copy, enabled) ==
    { [input |-> input,
       oz_sku |-> o.oz_sku,
       wb_sku |-> w.wb_sku,
       barcode_hit |-> barcode_hit,
       oz_is_primary_hit |-> o.is_primary,
       wb_is_primary_hit |-> w.is_primary,
       oz_primary_barcode |-> o.oz_primary_barcode,
       wb_primary_barcode |-> w.wb_primary_barcode,
       matched_by |-> matched_by3(o.is_primary, w.is_primary),
       match_score |-> match_score3(o.is_primary, w.is_primary),
       punta |-> pc_,
       copy |-> copy] : pc_ \in PuntaCols(o, w, enabled) }

\* CTE inp / matched of the barcode and external-code modes: one row per input
\* row and barcode it stands for (inp is not DISTINCT there)
matched(mode, vals) ==
    IF mode = "barcode"
    THEN UNION { { [input |-> b, barcode |-> b, copy |-> c] : c \in 1..Count(b, vals) }
                 : b \in Range(vals) }
    ELSE UNION { { [input |-> eb.external_code, barcode |-> eb.barcode, copy |-> c] :
                     c \in 1..Count(eb.external_code, vals) }
                 : eb \in {x \in punta_barcodes : x.external_code \in Range(vals)} }

\* FROM inp/matched LEFT JOIN oz_barcodes o LEFT JOIN wb_barcodes w
\* WHERE o.oz_sku IS NOT NULL OR w.wb_sku IS NOT NULL, for one row m
outer_pairs(m, ozb, wbb) ==
    LET O == {o \in ozb : o.barcode = m.barcode}
        W == {w \in wbb : w.barcode = m.barcode}
    IN  { p \in (IF O = {} THEN {NullOz} ELSE O) \X (IF W = {} THEN {NullWb} ELSE W) :
            p[1].oz_sku # NULL \/ p[2].wb_sku # NULL }

\* CTE joined of the four resolver modes, as MatchesQuery.assemble builds it
api_joined(mode, vals, enabled) ==
    LET ozb == { Oz3(o) : o \in oz_barcodes(IF mode = "oz" THEN oz_base(Range(vals))
                                            ELSE oz_products) }
        wbb == { Wb3(w) : w \in wb_barcodes(wb_products, One) }
        eq  == { p \in ozb \X wbb : p[1].barcode = p[2].barcode }
    IN  IF mode = "oz"
        THEN UNION { MatchRows(p[1].oz_sku, p[2].barcode, p[1], p[2], 1, enabled) : p \in eq }
        ELSE IF mode = "wb"
        THEN UNION { UNION { MatchRows(p[2].wb_sku, p[2].barcode, p[1], p[2], c, enabled) :
                               c \in 1..Count(p[2].wb_sku, vals) } : p \in eq }
        ELSE UNION { UNION { MatchRows(m.input, m.barcode, p[1], p[2], m.copy, enabled) :
                               p \in outer_pairs(m, ozb, wbb) } : m \in matched(mode, vals) }

\* the ORDER BY keys of a mode after the input key and match_score DESC;
\* a NULL key sorts after every value
NullsLast(k) == IF k = NULL THEN MaxInputLen + MaxBarcode + 1 ELSE k
OrderKeys(r, mode) ==
    IF mode = "oz" THEN <<NullsLast(r.wb_sku)>>
    ELSE IF mode = "wb" THEN <<NullsLast(r.oz_sku)>>
    ELSE <<NullsLast(r.oz_sku), NullsLast(r.wb_sku)>>

\* ORDER BY <input>, match_score DESC, <keys>: strictly before
ApiBefore(a, b, mode) ==
    LET ka == <<a.input, 0 - a.match_score>> \o OrderKeys(a, mode)
        kb == <<b.input, 0 - b.match_score>> \o OrderKeys(b, mode)
    IN  \/ \E i \in DOMAIN ka : /\ ka[i] < kb[i]
                                /\ \A j \in 1..(i - 1) : ka[j] = kb[j]
        \/ /\ DfRow(a) = DfRow(b)
           /\ a.copy < b.copy

RECURSIVE ApiSortedSeqs(_, _)
ApiSortedSeqs(S, mode) ==
    IF S = {} THEN {<<>>}
    ELSE UNION { { <<m>> \o t : t \in ApiSortedSeqs(S \ {m}, mode) }
                 : m \in {x \in S : \A y \in S : ~ApiBefore(y, x, mode)} }

\* ROW_NUMBER() OVER (PARTITION BY <input> ORDER BY match_score DESC, <keys>)
ApiRanked(order, lim) ==
    { order[i] : i \in {k \in DOMAIN order :
          Cardinality({j \in 1..k : order[j].input = order[k].input}) <= lim[1]} }

\* all results the final SELECT of a mode may return
ApiResults(J, lim, mode) ==
    IF Params(lim) = <<>>
    THEN { [i \in DOMAIN s |-> DfRow(s[i])] : s \in ApiSortedSeqs(J, mode) }
    ELSE UNION { { [i \in DOMAIN s |-> DfRow(s[i])] :
                      s \in ApiSortedSeqs(ApiRanked(order, Params(lim)), mode) }
                 : order \in ApiSortedSeqs(J, mode) }

\* _matches_for_oz_skus, _matches_for_wb_skus, _matches_for_barcodes,
\* _matches_for_external_codes: what the call returns or raises
MatchesFor(mode, vals, lim) ==
    IF vals = <<>>
    THEN df' = <<>> /\ raised' = ""
    ELSE IF mode = "external" /\ ~punta_enabled
    THEN df' = <<>> /\ raised' = "ValueError"
    ELSE IF mode \in {"oz", "wb"} /\ ~CastsToUBigint(vals)
    THEN df' = <<>> /\ raised' = "ConversionException"
    ELSE /\ raised' = ""
         /\ df' \in ApiResults(api_joined(mode, vals, punta_enabled), lim, mode)

----------------------------------------------------------------------------
(* The public operations: find_wb_by_oz, find_oz_by_wb, find_by_barcodes,   *)
(* search_matches, search_similar_matches                                  *)

\* what a caller may pass as one key: None, '', ' ', 'x', '1', '2'
KeyTokens == {NULL, EMPTY, BLANK, NONNUM} \cup InputKeys
\* what a caller may pass in a list of keys
ListTokens == {NULL, BLANK} \cup InputKeys

\* limit / limit_per_input of the public operations
ApiLimits == {<<>>, <<1>>}

InputTypes == {"oz_sku", "wb_sku", "barcode", "punta_external_code", "oz_vendor_code"}

\* `if not oz_sku:` / `if not wb_sku:`
Falsy(token) == token \in {NULL, EMPTY}

\* wb_list = [str(s).strip() for s in wb_skus if str(s).strip()]  (str(None) is 'None')
RECURSIVE wb_list(_)
wb_list(tokens) ==
    IF tokens = <<>> THEN <<>>
    ELSE IF Head(tokens) \in {EMPTY, BLANK} THEN wb_list(Tail(tokens))
    ELSE <<IF Head(tokens) = NULL THEN NONNUM ELSE Head(tokens)>> \o wb_list(Tail(tokens))

\* CTE seed: WHERE seed_wb_sku ~ '^[0-9]+'
NumericSeeds(list) == {list[i] : i \in {k \in DOMAIN list : list[k] > 0}}

\* SELECT DISTINCT oz_sku FROM oz_products p JOIN inputs_oid i ON equal oz_vendor_code
VendorOzSkus(vals) ==
    {p.oz_sku : p \in {x \in oz_products : x.oz_vendor_code \in Range(vals)}}

\* a sequence listing the set S (the order does not reach the result)
RECURSIVE SeqOf(_)
SeqOf(S) == IF S = {} THEN <<>> ELSE LET m == Min(S) IN <<m>> \o SeqOf(S \ {m})

\* find_wb_by_oz(oz_sku, limit)
FindWbByOz ==
    \E token \in KeyTokens, lim \in ApiLimits :
        /\ pc = "idle"
        /\ pc' = "find_wb_by_oz"
        /\ inputs' = <<token>>
        /\ limit' = lim
        /\ IF Falsy(token)
           THEN df' = <<>> /\ raised' = "ValueError"
           ELSE MatchesFor("oz", <<token>>, lim)
        /\ UNCHANGED <<storeVars, helperVars, conVars, collVars, oz_rows, wb_rows, simVars, dupVars>>

\* find_oz_by_wb(wb_sku, limit)
FindOzByWb ==
    \E token \in KeyTokens, lim \in ApiLimits :
        /\ pc = "idle"
        /\ pc' = "find_oz_by_wb"
        /\ inputs' = <<token>>
        /\ limit' = lim
        /\ IF Falsy(token)
           THEN df' = <<>> /\ raised' = "ValueError"
           ELSE MatchesFor("wb", <<token>>, lim)
        /\ UNCHANGED <<storeVars, helperVars, conVars, collVars, oz_rows, wb_rows, simVars, dupVars>>

\* find_by_barcodes(barcodes, limit)
FindByBarcodes ==
    \E tokens \in SeqsUpTo(ListTokens, MaxInputLen), lim \in ApiLimits :
        /\ pc = "idle"
        /\ pc' = "find_by_barcodes"
        /\ inputs' = tokens
        /\ limit' = lim
        /\ IF _normalize_barcodes(tokens) = <<>>
           THEN df' = <<>> /\ raised' = "ValueError"
           ELSE MatchesFor("barcode", _normalize_barcodes(tokens), lim)
        /\ UNCHANGED <<storeVars, helperVars, conVars, collVars, oz_rows, wb_rows, simVars, dupVars>>

SearchPc ==
    [oz_sku |-> "search_matches_oz_sku", wb_sku |-> "search_matches_wb_sku",
     barcode |-> "search_matches_barcode",
     punta_external_code |-> "search_matches_punta_external_code",
     oz_vendor_code |-> "search_matches_oz_vendor_code"]

\* search_matches(inputs, input_type=..., limit_per_input=...)
SearchMatches ==
    \E tokens \in SeqsUpTo(ListTokens, MaxInputLen), lim \in ApiLimits,
       input_type \in InputTypes :
        /\ pc = "idle"
        /\ pc' = SearchPc[input_type]
        /\ inputs' = tokens
        /\ limit' = lim
        /\ \E vals \in {_normalize_barcodes(tokens)} :
             IF vals = <<>> THEN df' = <<>> /\ raised' = ""
             ELSE IF input_type = "oz_sku" THEN MatchesFor("oz", vals, lim)
             ELSE IF input_type = "wb_sku" THEN MatchesFor("wb", vals, lim)
             ELSE IF input_type = "barcode" THEN MatchesFor("barcode", vals, lim)
             ELSE IF input_type = "punta_external_code" THEN MatchesFor("external", vals, lim)
             ELSE MatchesFor("oz", SeqOf(VendorOzSkus(vals)), lim)
        /\ UNCHANGED <<storeVars, helperVars, conVars, collVars, oz_rows, wb_rows, simVars, dupVars>>

\* search_matches with an input_type it does not know
SearchMatchesUnknownType ==
    \E tokens \in SeqsUpTo(ListTokens, MaxInputLen) :
        /\ pc = "idle"
        /\ pc' = "search_matches_unknown"
        /\ inputs' = tokens
        /\ limit' = <<>>
        /\ df' = <<>>
        /\ raised' = IF _normalize_barcodes(tokens) = <<>> THEN "" ELSE "ValueError"
        /\ UNCHANGED <<storeVars, helperVars, conVars, collVars, oz_rows, wb_rows, simVars, dupVars>>

\* search_similar_matches(wb_skus) with the default configuration
SearchSimilarPublic ==
    \E tokens \in SeqsUpTo(ListTokens, MaxInputLen) :
        /\ pc = "idle"
        /\ pc' = "search_similar_matches"
        /\ inputs' = tokens
        /\ raised' = ""
        /\ IF wb_list(tokens) = <<>>
           THEN /\ df' = <<>>
                /\ UNCHANGED <<seeds, cfg, scored, df_pairs, components, out>>
           ELSE SimilarResult(NumericSeeds(wb_list(tokens)), DefaultConfig, 1)
        /\ UNCHANGED <<storeVars, helperVars, conVars, collVars, limit, oz_rows, wb_rows, dupVars,
                       component, max_size, prev_out, calls, iterOrder>>

ReturnApi ==
    /\ pc # "idle"
    /\ pc' = "idle"
    /\ inputs' = <<>> /\ limit' = <<>> /\ df' = <<>>
    /\ raised' = ""
    /\ cfg' = <<>> /\ seeds' = {} /\ scored' = {} /\ df_pairs' = <<>>
    /\ components' = <<>> /\ out' = <<>>
    /\ UNCHANGED <<storeVars, helperVars, conVars, collVars, oz_rows, wb_rows, dupVars,
                   component, max_size, prev_out, calls, iterOrder>>

\* a Catalog-B row as wb_products holds it for both subsystems
ApiWb(w) ==
    [wb_sku |-> w.wb_sku, seller_category |-> 1, gender |-> 1,
     barcodes |-> w.barcodes, primary_barcode |-> w.primary_barcode]

\* one product per catalog; either side may be inconsistent
ApiStores ==
    { <<{o[1]}, o[2], {ApiWb(w)}>> : o \in GeneralOz(1), w \in ConsistentWb(1) }
    \cup { <<{o[1]}, o[2], {ApiWb(w)}>> : o \in ConsistentOz(1), w \in GeneralWb(1) }

PuntaBarcode(e, b) == [external_code |-> e, barcode |-> b]
PuntaCode(e, c) == [external_code |-> e, collection |-> c]

\* the joined rows of one input key are at most this many
MaxEnrichedRows == 2

\* the mapping source: absent, or its two tables.  Neither table has a key:
\* one barcode may stand under two external codes and one external code may
\* have two product rows
PuntaStores ==
    { <<FALSE, {}, {}>> }
    \cup { <<TRUE, B, C>> :
             B \in (SUBSET {PuntaBarcode(1, 1), PuntaBarcode(2, 2)})
                     \cup {{PuntaBarcode(1, 1), PuntaBarcode(1, 2)},
                           {PuntaBarcode(1, 1), PuntaBarcode(2, 1)}},
             C \in { {}, {PuntaCode(1, 1)}, {PuntaCode(1, 1), PuntaCode(2, 2)},
                     {PuntaCode(1, 1), PuntaCode(1, 2)} } }

InitApi ==
    /\ \E s \in ApiStores :
        /\ oz_products = s[1]
        /\ oz_products_full = s[2]
        /\ wb_products = s[3]
    /\ \E t \in PuntaStores :
        /\ punta_enabled = t[1]
        /\ punta_barcodes = t[2]
        /\ punta_products_codes = t[3]
    /\ \A mode \in {"oz", "wb", "barcode"}, k \in InputKeys :
          Cardinality(api_joined(mode, <<k>>, punta_enabled)) <= MaxEnrichedRows
    /\ punta_exists = FALSE
    /\ punta_google = {}
    /\ MatchIdle
    /\ ApiIdle
    /\ HelperIdle
    /\ ConIdle
    /\ CollIdle
    /\ SimIdle
    /\ DupIdle
    /\ pc = "idle"

NextApi ==
    \/ FindWbByOz
    \/ FindOzByWb
    \/ FindByBarcodes
    \/ SearchMatches
    \/ SearchMatchesUnknownType
    \/ SearchSimilarPublic
    \/ ReturnApi

SpecApi == InitApi /\ [][NextApi]_vars

----------------------------------------------------------------------------
(* Claims about the public operations *)

ApiCalled ==
    pc \in {"find_wb_by_oz", "find_oz_by_wb", "find_by_barcodes", "search_similar_matches"}
            \cup {SearchPc[t] : t \in InputTypes}

\* the input set is empty or holds only blank values
BlankInput == \A i \in DOMAIN inputs : inputs[i] \in {NULL, EMPTY, BLANK}

\* the keys of the kind the operation at pc takes that the store knows
KnownKeys ==
    IF pc \in {"find_wb_by_oz", "search_matches_oz_sku"}
    THEN {p.oz_sku : p \in oz_products}
    ELSE IF pc \in {"find_oz_by_wb", "search_matches_wb_sku", "search_similar_matches"}
    THEN {wp.wb_sku : wp \in wb_products}
    ELSE IF pc = "search_matches_oz_vendor_code"
    THEN {p.oz_vendor_code : p \in oz_products}
    ELSE IF pc = "search_matches_punta_external_code"
    THEN {eb.external_code : eb \in punta_barcodes}
    ELSE {r.barcode : r \in oz_barcodes(oz_products)}
           \cup {r.barcode : r \in wb_barcodes(wb_products, One)}

\* the input holds well-formed keys, none of which the store knows
UnknownInput ==
    /\ inputs # <<>>
    /\ \A i \in DOMAIN inputs : inputs[i] \in InputKeys \ KnownKeys

\* C11: every public resolve operation (find_wb_by_oz, find_oz_by_wb,
\* find_by_barcodes, search_matches, search_similar_matches) raises a validation
\* failure when its input is empty or holds only blank values, and returns an
\* empty result without raising when the input is non-empty but names nothing
\* the store knows.
C11_EmptyInputRaises ==
    ApiCalled =>
        /\ BlankInput => raised = "ValueError"
        /\ UnknownInput => raised = "" /\ df = <<>>

\* the second half of C11 alone: an input of unknown keys gives an empty result
C11_NoMatchIsEmpty ==
    (ApiCalled /\ UnknownInput /\ (pc = "search_matches_punta_external_code" => punta_enabled))
        => raised = "" /\ df = <<>>

----------------------------------------------------------------------------
(* Claims about the seeds of the similarity search *)

\* the seed keys of the last call that Catalog-B holds
KnownSeeds == seeds \cap {wp.wb_sku : wp \in wb_products}

\* C12: every seed key passed to search_similar_matches that exists in
\* Catalog-B is registered in the union-find structure and belongs to exactly
\* one group, also when it has no candidate at or above the threshold (it is
\* then a group of its own).
C12_SeedsRegistered ==
    pc = "similar" =>
        \A s \in KnownSeeds :
            Cardinality({i \in DOMAIN components : s \in components[i]}) = 1

\* what does hold: a seed that has a kept candidate is in exactly one group
C12_PairedSeedsRegistered ==
    pc = "similar" =>
        \A s \in {df_pairs[i].seed_wb_sku : i \in DOMAIN df_pairs} :
            Cardinality({i \in DOMAIN components : s \in components[i]}) = 1

\* C13: every CandidatePair search_similar_matches keeps satisfies
\* min_score_threshold <= final_score <= max_score, for every configuration
\* that passes validate(), whether or not punta_google exists.
C13_ScoreWithinBounds ==
    pc = "similar" =>
        \A i \in DOMAIN df_pairs :
            /\ cfg.min_score_threshold <= df_pairs[i].final_score
            /\ df_pairs[i].final_score <= cfg.max_score * 100

\* what does hold: the threshold always, the cap when punta_google exists
C13_ThresholdAndCapWithSource ==
    pc = "similar" =>
        \A i \in DOMAIN df_pairs :
            /\ cfg.min_score_threshold <= df_pairs[i].final_score
            /\ punta_exists => df_pairs[i].final_score <= cfg.max_score * 100

\* the scored rows of a (seed, candidate) pair at or above the threshold
PassingRows(s, c) ==
    {r \in scored : /\ r.seed_wb_sku = s /\ r.cand_wb_sku = c
                    /\ r.final_score >= cfg.min_score_threshold}

\* the candidates of seed s that have such a row, and the best score of each
Eligible(s) == {r.cand_wb_sku : r \in {x \in scored : PassingRows(s, x.cand_wb_sku) # {}
                                                        /\ x.seed_wb_sku = s}}
BestScore(s, c) == Max({r.final_score : r \in PassingRows(s, c)})

\* candidate a comes before candidate b in the rank of seed s
RankedBefore(s, a, b) ==
    \/ BestScore(s, a) > BestScore(s, b)
    \/ BestScore(s, a) = BestScore(s, b) /\ a < b

KeptOf(s) == {df_pairs[i].cand_wb_sku : i \in {k \in DOMAIN df_pairs : df_pairs[k].seed_wb_sku = s}}

\* C14: search_similar_matches keeps each (seed, candidate) pair at most once,
\* with the maximum final_score among its duplicate rows; for every seed the
\* kept candidates are exactly the first max_candidates_per_seed (all when
\* fewer) of its at-or-above-threshold candidates by final_score descending,
\* then candidate key ascending; no kept candidate equals its seed.
C14_KeptPairs ==
    pc = "similar" =>
        /\ \A i, j \in DOMAIN df_pairs :
              (/\ df_pairs[i].seed_wb_sku = df_pairs[j].seed_wb_sku
               /\ df_pairs[i].cand_wb_sku = df_pairs[j].cand_wb_sku) => i = j
        /\ \A i \in DOMAIN df_pairs :
              /\ df_pairs[i].cand_wb_sku # df_pairs[i].seed_wb_sku
              /\ df_pairs[i].cand_wb_sku \in Eligible(df_pairs[i].seed_wb_sku)
              /\ df_pairs[i].final_score =
                     BestScore(df_pairs[i].seed_wb_sku, df_pairs[i].cand_wb_sku)
        /\ \A s \in seeds :
              \A c \in Eligible(s) :
                  c \in KeptOf(s) <=>
                      Cardinality({b \in Eligible(s) : RankedBefore(s, b, c)})
                          < cfg.max_candidates_per_seed

\* a seed with more passing candidates than are kept, one of them scored twice
C14_Witness ==
    /\ pc = "similar"
    /\ \E s \in seeds :
          /\ Cardinality(Eligible(s)) > cfg.max_candidates_per_seed
          /\ \E c \in KeptOf(s) : \E r \in PassingRows(s, c) : r.final_score < BestScore(s, c)
          /\ \E c \in Eligible(s) \ KeptOf(s) : \E b \in KeptOf(s) : b > c

----------------------------------------------------------------------------
(* Claims about the Match rows of the public operations *)

\* the (external_code, collection) tags the mapping source gives a primary
\* barcode: none (NULL, NULL) for a NULL or unmapped barcode
PrimaryTags(primary) ==
    IF primary = NULL \/ ~(\E m \in punta_map : m.barcode = primary)
    THEN { [external_code |-> NULL, collection |-> NULL] }
    ELSE { [external_code |-> m.external_code, collection |-> m.collection] :
             m \in {x \in punta_map : x.barcode = primary} }

OzTag(r) == [external_code |-> r.punta[1].punta_external_code_oz,
             collection |-> r.punta[1].punta_collection_oz]
WbTag(r) == [external_code |-> r.punta[1].punta_external_code_wb,
             collection |-> r.punta[1].punta_collection_wb]

\* C15: when the mapping source is present, the tag (external code and
\* collection) on each side of a Match row is the one mapped from that side's
\* own primary barcode, never from the matched barcode, also in rows of
\* products whose primary barcode is null.
C15_TagFromPrimary ==
    ApiCalled =>
        \A i \in DOMAIN df :
            df[i].punta # <<>> =>
                /\ OzTag(df[i]) \in PrimaryTags(df[i].oz_primary_barcode)
                /\ WbTag(df[i]) \in PrimaryTags(df[i].wb_primary_barcode)

\* what does hold: a side whose primary barcode is not null is tagged from it
C15_TagFromKnownPrimary ==
    ApiCalled =>
        \A i \in DOMAIN df :
            df[i].punta # <<>> =>
                /\ df[i].oz_primary_barcode # NULL
                      => OzTag(df[i]) \in PrimaryTags(df[i].oz_primary_barcode)
                /\ df[i].wb_primary_barcode # NULL
                      => WbTag(df[i]) \in PrimaryTags(df[i].wb_primary_barcode)

\* the score of each tier (spec section 3)
TierScore ==
    [t \in {"primary<->primary", "primary<->any", "any<->primary", "any<->any"} |->
        IF t = "primary<->primary" THEN 100 ELSE IF t = "any<->any" THEN 60 ELSE 80]

\* C16: in every Match row of every resolver mode (by key, by barcode, by
\* external code) the score is the one fixed for the row's tier: 100 for
\* primary<->primary, 80 for primary<->any and any<->primary, 60 for any<->any,
\* also in rows where only one side resolves and the other flag is null.
C16_ScoreOfTier ==
    ApiCalled =>
        \A i \in DOMAIN df : df[i].match_score = TierScore[df[i].matched_by]

\* what does hold: the score is the one of the tier in rows where both sides resolve
C16_ScoreOfTierBothSides ==
    ApiCalled =>
        \A i \in DOMAIN df :
            (df[i].oz_sku # NULL /\ df[i].wb_sku # NULL)
                => df[i].match_score = TierScore[df[i].matched_by]

----------------------------------------------------------------------------
(* Claims about the order of the key-based resolvers *)

\* C17: within one invocation the Exact Match Resolver is fully deterministic:
\* ORDER BY input key, score DESC, opposite key is a total order of the rows
\* of an input key, so the stored rows admit one result only, also when one
\* opposite-side product shares several equal-score barcodes with the input key.
C17_TotalOrder ==
    Called => Cardinality(QueryResults(joined(oz_rows, wb_rows), limit, Side)) = 1

\* what does hold: the result is determined when no two rows of one pair of
\* products have the same score
C17_TotalOrderOfDistinctPairs ==
    (/\ Called
     /\ \A a, b \in joined(oz_rows, wb_rows) :
           (a.oz_sku = b.oz_sku /\ a.wb_sku = b.wb_sku /\ a.match_score = b.match_score)
               => DfRow(a) = DfRow(b))
        => Cardinality(QueryResults(joined(oz_rows, wb_rows), limit, Side)) = 1

----------------------------------------------------------------------------
(* Claims about group numbers *)

\* the hexadecimal digits of n, most significant first, as numbers
RECURSIVE HexSeq(_)
HexSeq(n) == IF n < 16 THEN <<n>> ELSE Append(HexSeq(n \div 16), n % 16)

\* a < b for two strings of one alphabet whose characters are listed as numbers
LexLess(a, b) ==
    \/ \E i \in DOMAIN a \cap DOMAIN b :
          /\ a[i] < b[i]
          /\ \A j \in 1..(i - 1) : a[j] = b[j]
    \/ /\ Len(a) < Len(b)
       /\ \A j \in DOMAIN a : a[j] = b[j]

\* the key a merge code 'C-<hex>' of the similarity search was built from
KeyOfCode(code) == CHOOSE k \in WbKeys : "C-" \o ToHex(k) = code

\* merge code a sorts before merge code b
CodeLess(a, b) == LexLess(HexSeq(KeyOfCode(a)), HexSeq(KeyOfCode(b)))

OutCodes == {out[i].merge_code : i \in DOMAIN out}

\* C18: in the table search_similar_matches returns, group_number is a dense
\* 1..N index over the sorted distinct merge codes of the table: the numbers
\* that occur are exactly 1..N and a smaller merge code never has a larger
\* number, also when some components have no Catalog-A match.
C18_DenseGroupNumbers ==
    pc = "similar" =>
        \A i \in DOMAIN out :
            out[i].group_number =
                1 + Cardinality({c \in OutCodes : CodeLess(c, out[i].merge_code)})

\* what does hold: the rows of one merge code have one group number, and two
\* merge codes have two
C18_OneNumberPerCode ==
    pc = "similar" =>
        \A i, j \in DOMAIN out :
            (out[i].merge_code = out[j].merge_code)
                <=> (out[i].group_number = out[j].group_number)

----------------------------------------------------------------------------
(* The merge-field helpers generate_merge_code and add_merge_fields         *)
(* (matching_helpers.py).  A string is the sequence of its characters; None *)
(* is NoneKey.  A merge code is a string too.                              *)

MaxKeyLen == 3       \* a key given to generate_merge_code has at most this many characters
MaxMergeRows == 2    \* a table given to add_merge_fields has at most this many rows

KeyChars == {" ", "-", "0", "1", "9", "x"}
NoneKey == <<"None">>

\* str.strip()
RECURSIVE lstrip(_)
lstrip(s) == IF s # <<>> /\ Head(s) = " " THEN lstrip(Tail(s)) ELSE s

RECURSIVE rstrip(_)
rstrip(s) == IF s # <<>> /\ s[Len(s)] = " " THEN rstrip(SubSeq(s, 1, Len(s) - 1)) ELSE s

strip(s) == rstrip(lstrip(s))

IsDigit(ch) == \E i \in 1..10 : HexDigits[i] = ch
DigitVal(ch) == (CHOOSE i \in 1..10 : HexDigits[i] = ch) - 1

\* int(s) does not raise: an optional sign and one or more decimal digits
IsInt(s) ==
    LET digits == IF s # <<>> /\ Head(s) = "-" THEN Tail(s) ELSE s
    IN  digits # <<>> /\ \A i \in DOMAIN digits : IsDigit(digits[i])

RECURSIVE DecVal(_)
DecVal(digits) ==
    IF digits = <<>> THEN 0
    ELSE DecVal(SubSeq(digits, 1, Len(digits) - 1)) * 10 + DigitVal(digits[Len(digits)])

\* int(s)
py_int(s) == IF Head(s) = "-" THEN 0 - DecVal(Tail(s)) ELSE DecVal(s)

RECURSIVE HexChars(_)
HexChars(n) ==
    IF n < 16 THEN <<HexDigits[n + 1]>>
    ELSE Append(HexChars(n \div 16), HexDigits[(n % 16) + 1])

\* a wrong conversion: the digits of n in base 10
RECURSIVE format_X_mutant(_)
format_X_mutant(n) ==
    IF n < 0 THEN <<"-">> \o format_X_mutant(0 - n)
    ELSE IF n < 10 THEN <<HexDigits[n + 1]>>
    ELSE Append(format_X_mutant(n \div 10), HexDigits[(n % 10) + 1])

\* format(n, "X")
format_X(n) == IF n < 0 THEN <<"-">> \o HexChars(0 - n) ELSE HexChars(n)

\* hashlib.md5(s).hexdigest()[:12].upper(): twelve hexadecimal digits that
\* depend on s alone; two strings may share them
CharCode(ch) == CHOOSE i \in 1..6 : <<" ", "-", "0", "1", "9", "x">>[i] = ch

RECURSIVE CharSum(_)
CharSum(s) == IF s = <<>> THEN 0 ELSE CharCode(Head(s)) + CharSum(Tail(s))

md5_12(s) == [i \in 1..12 |-> IF i < 12 THEN "E" ELSE HexDigits[(CharSum(s) % 4) + 1]]

\* generate_merge_code(wb_sku): what it raises, or (merge_code, wb_hex, fallback_used)
generate_merge_code(wb_sku) ==
    IF wb_sku = NoneKey \/ strip(wb_sku) = <<>>
    THEN [raised |-> "ValueError", merge_code |-> <<>>, wb_hex |-> <<>>,
          fallback_used |-> FALSE]
    ELSE IF IsInt(strip(wb_sku))
    THEN [raised |-> "", merge_code |-> <<"B", "-">> \o format_X(py_int(strip(wb_sku))),
          wb_hex |-> format_X(py_int(strip(wb_sku))), fallback_used |-> FALSE]
    ELSE [raised |-> "", merge_code |-> <<"B", "-">> \o md5_12(strip(wb_sku)),
          wb_hex |-> md5_12(strip(wb_sku)), fallback_used |-> TRUE]

\* parse_color_from_oz_vendor_code, on the '-'-separated parts of the code
\* (<<>> for None or a blank code): <<color, ok>>
parse_color_from_oz_vendor_code(parts) ==
    IF Len(parts) >= 3 /\ parts[2] # "" THEN <<parts[2], TRUE>> ELSE <<"", FALSE>>

\* Python's str <: by the code points of the first characters that differ
CodePoints == <<"-", "0", "1", "2", "3", "4", "5", "6", "7", "8", "9",
                "A", "B", "C", "D", "E", "F">>
CodePoint(ch) == CHOOSE i \in DOMAIN CodePoints : CodePoints[i] = ch

RECURSIVE str_lt(_, _)
str_lt(a, b) ==
    IF b = <<>> THEN FALSE
    ELSE IF a = <<>> THEN TRUE
    ELSE IF Head(a) = Head(b) THEN str_lt(Tail(a), Tail(b))
    ELSE CodePoint(Head(a)) < CodePoint(Head(b))

\* sorted(S) for a set of strings
RECURSIVE sorted(_)
sorted(S) ==
    IF S = {} THEN <<>>
    ELSE LET m == CHOOSE x \in S : \A y \in S \ {x} : str_lt(x, y)
         IN  <<m>> \o sorted(S \ {m})

\* a wrong numbering: in the order the merge codes first appear in the table
merge_code_to_group_mutant(rows) ==
    [c \in {rows[i].merge_code : i \in DOMAIN rows} |->
        Cardinality({rows[j].merge_code :
                       j \in 1..Min({i \in DOMAIN rows : rows[i].merge_code = c})})]

\* merge_code_to_group = {code: idx + 1 for idx, code in enumerate(sorted(unique))}
merge_code_to_group(rows) ==
    LET unique_merge_codes == sorted({rows[i].merge_code : i \in DOMAIN rows})
    IN  [c \in {rows[i].merge_code : i \in DOMAIN rows} |->
            CHOOSE idx \in DOMAIN unique_merge_codes : unique_merge_codes[idx] = c]

\* df["group_number"] = df["merge_code"].map(merge_code_to_group)
renumber(rows) ==
    LET g == merge_code_to_group(rows)
    IN  [i \in DOMAIN rows |-> [rows[i] EXCEPT !.group_number = g[rows[i].merge_code]]]

\* the loop of add_merge_fields over the rows
merge_fields_of(r) ==
    LET gen == generate_merge_code(r.wb_sku)
        code == IF gen.raised # "" THEN <<>> ELSE gen.merge_code
        hx == IF gen.raised # "" THEN <<>> ELSE gen.wb_hex
        col == parse_color_from_oz_vendor_code(r.oz_vendor_code)
    IN  [wb_sku |-> r.wb_sku, oz_vendor_code |-> r.oz_vendor_code,
         merge_code |-> code,
         merge_wb_hex |-> hx,
         merge_color |-> IF col[2] THEN <<col[1], "; ">> \o hx ELSE hx,
         merge_parse_ok |-> col[2],
         merge_fallback_hex |-> IF gen.raised # "" THEN TRUE ELSE gen.fallback_used,
         group_number |-> 0]

\* add_merge_fields(df)
add_merge_fields(rows) ==
    IF rows = <<>> THEN rows
    ELSE renumber([i \in DOMAIN rows |-> merge_fields_of(rows[i])])

\* the keys and tables the helpers are called with
AllKeys(maxLen) == {NoneKey} \cup SeqsUpTo(KeyChars, maxLen)

TableKeys ==
    { NoneKey, <<" ">>, <<"x">>, <<"9">>, <<"0", "9">>, <<"1", "0">>, <<"9", "9">> }

VendorCodes == { <<"1", "Red", "3">>, <<"badformat">> }

MergeTables(maxRows) ==
    SeqsUpTo({ [wb_sku |-> k, oz_vendor_code |-> v] : k \in TableKeys, v \in VendorCodes },
             maxRows)

InitMerge ==
    /\ oz_products = {} /\ oz_products_full = {} /\ wb_products = {}
    /\ punta_exists = FALSE /\ punta_google = {}
    /\ NoPunta
    /\ MatchIdle
    /\ SimIdle
    /\ DupIdle
    /\ raised = ""
    /\ ConIdle
    /\ CollIdle
    /\ merge_ret = <<>>
    /\ \/ merge_arg \in AllKeys(MaxKeyLen) /\ pc = "key_arg"
       \/ merge_arg \in MergeTables(MaxMergeRows) /\ pc = "table_arg"

\* generate_merge_code(wb_sku)
GenerateMergeCode ==
    /\ pc = "key_arg"
    /\ pc' = "generate_merge_code"
    /\ raised' = generate_merge_code(merge_arg).raised
    /\ merge_ret' = <<generate_merge_code(merge_arg)>>
    /\ UNCHANGED <<storeVars, conVars, collVars, matchVars, simVars, dupVars, merge_arg>>

\* the same call once more
GenerateMergeCodeAgain ==
    /\ pc = "generate_merge_code"
    /\ Len(merge_ret) = 1
    /\ pc' = "generate_merge_code"
    /\ raised' = generate_merge_code(merge_arg).raised
    /\ merge_ret' = Append(merge_ret, generate_merge_code(merge_arg))
    /\ UNCHANGED <<storeVars, conVars, collVars, matchVars, simVars, dupVars, merge_arg>>

\* add_merge_fields(df)
AddMergeFields ==
    /\ pc = "table_arg"
    /\ pc' = "add_merge_fields"
    /\ merge_ret' = add_merge_fields(merge_arg)
    /\ UNCHANGED <<storeVars, conVars, collVars, apiVars, matchVars, simVars, dupVars, merge_arg>>

\* the page concatenates the result with that of another chunk and numbers the
\* groups again
RenumberChunks ==
    \E chunk \in MergeTables(MaxMergeRows) \ {<<>>} :
        /\ pc = "add_merge_fields"
        /\ merge_arg # <<>>
        /\ pc' = "renumbered"
        /\ merge_arg' = merge_ret \o add_merge_fields(chunk)
        /\ merge_ret' = renumber(merge_ret \o add_merge_fields(chunk))
        /\ UNCHANGED <<storeVars, conVars, collVars, apiVars, matchVars, simVars, dupVars>>

NextMerge ==
    \/ GenerateMergeCode
    \/ GenerateMergeCodeAgain
    \/ AddMergeFields
    \/ RenumberChunks

SpecMerge == InitMerge /\ [][NextMerge]_vars

----------------------------------------------------------------------------
(* Claims about the merge-field helpers *)

\* a merge code as the numbers of its characters, for LexLess
CodeRanks(code) == [i \in DOMAIN code |-> CodePoint(code[i])]

MergeRetCodes == {merge_ret[i].merge_code : i \in DOMAIN merge_ret}

\* C19: add_merge_fields numbers groups densely: for a non-empty table the
\* group_number values are exactly 1..N for the N distinct merge codes, in
\* ascending lexicographic order of merge code, so two rows have one
\* group_number if and only if they have one merge_code; the same renumbering
\* of concatenated chunks gives different merge codes different group numbers
\* even when each chunk had numbered its own group 1.
C19_DenseSortedNumbers ==
    (pc \in {"add_merge_fields", "renumbered"} /\ merge_ret # <<>>) =>
        /\ {merge_ret[i].group_number : i \in DOMAIN merge_ret}
              = 1..Cardinality(MergeRetCodes)
        /\ \A i, j \in DOMAIN merge_ret :
              /\ (merge_ret[i].group_number = merge_ret[j].group_number)
                    <=> (merge_ret[i].merge_code = merge_ret[j].merge_code)
              /\ LexLess(CodeRanks(merge_ret[i].merge_code),
                         CodeRanks(merge_ret[j].merge_code))
                    => merge_ret[i].group_number < merge_ret[j].group_number

\* two chunks that each numbered their group 1 are numbered apart, and the
\* order of the numbers is that of the codes as strings, not of the keys
C19_Witness ==
    /\ pc = "renumbered"
    /\ \E i, j \in DOMAIN merge_arg :
          /\ merge_arg[i].merge_code # merge_arg[j].merge_code
          /\ merge_arg[i].group_number = 1
          /\ merge_arg[j].group_number = 1
          /\ merge_ret[i].group_number # merge_ret[j].group_number
    /\ \E i, j \in DOMAIN merge_ret :
          /\ merge_ret[i].merge_code = <<"B", "-", "6", "3">>
          /\ merge_ret[j].merge_code = <<"B", "-", "9">>
          /\ merge_ret[i].group_number < merge_ret[j].group_number

\* the integer an uppercase hexadecimal numeral (with an optional sign) denotes
RECURSIVE HexVal(_)
HexVal(h) ==
    IF h = <<>> THEN 0
    ELSE HexVal(SubSeq(h, 1, Len(h) - 1)) * 16
           + (CHOOSE i \in 1..16 : HexDigits[i] = h[Len(h)]) - 1

IsHexNumeral(h) == h # <<>> /\ \A i \in DOMAIN h : \E k \in 1..16 : HexDigits[k] = h[i]

SignedHexVal(h) == IF Head(h) = "-" THEN 0 - HexVal(Tail(h)) ELSE HexVal(h)

IsSignedHexNumeral(h) ==
    h # <<>> /\ IsHexNumeral(IF Head(h) = "-" THEN Tail(h) ELSE h)

BlankKey(k) == k = NoneKey \/ \A i \in DOMAIN k : k[i] = " "
NumericKey(k) == k # NoneKey /\ IsInt(strip(k))

-----------------------------------------------------------------------------
(* C21 .. : the group numbers and the frame of mark_duplicate_sizes *)

\* the places of the output rows that were marked as duplicates
DuplicatePlaces ==
    {i \in DOMAIN dup_out.rows : dup_out.rows[i].merge_code.head = dup_args.duplicate_prefix}

FreshGroupNumbers ==
    \A i \in DuplicatePlaces : \A j \in DOMAIN dup_out.rows :
        i # j => dup_out.rows[i].group_number # dup_out.rows[j].group_number

\* C21: in the output of mark_duplicate_sizes, grouping by group_number or by
\* wb_sku, every row marked as a duplicate has a group number that no other
\* row of the output has, primary or duplicate.
C21_FreshGroupNumbers == DupMarked => FreshGroupNumbers

\* C21, on tables that carry a group_number column: the same statement
C21_FreshWithGroupColumn ==
    (DupMarked /\ "group_number" \in dup_in.columns) => FreshGroupNumbers

-----------------------------------------------------------------------------
(* Store handles and invocations in progress.  A connection is the caller's *)
(* handle or one the engine opened with get_connection; it holds the        *)
(* relation registered on it under the name `inputs`.  An invocation is a   *)
(* call of search_matches or of select_campaign_candidates; it advances one *)
(* statement at a time, so two invocations interleave.                      *)

MaxConnections == 3    \* connection 1 is the caller's handle, the engine opens the others

Invocations == {1, 2}  \* two calls, each made once
Connections == 1..MaxConnections
HANDLE == 1
NoCon == 0             \* con=None

\* nothing registered under the name `inputs`
NoRelation == [col |-> "", vals |-> <<>>]

IdleInvocation ==
    [pc |-> "idle", op |-> "", vals |-> <<>>, con |-> NoCon, local_con |-> NoCon,
     i |-> 0, df |-> <<>>, raised |-> ""]

ConOps == {"oz_sku", "wb_sku", "campaign"}

\* the values a caller passes
ConInputs == {<<BLANK>>, <<1>>, <<2>>, <<NONNUM>>, <<1, 2>>}

\* duckdb.connect(dsn): a connection that was not opened before
get_connection == CHOOSE c \in Connections :
                     /\ connections[c].state = "unopened"
                     /\ \A b \in Connections : connections[b].state = "unopened" => c <= b

\* con or get_connection(...)
_ensure_connection(con) == IF con # NoCon THEN con ELSE get_connection

\* the column of the relation a resolver registers and reads
InputColumn(op) == IF op = "oz_sku" THEN "oz_sku" ELSE "wb_sku"

\* the tables the resolver's query can return for the rows vals of `inputs`
ResolverResults(op, vals) ==
    IF op = "oz_sku"
    THEN QueryResults(joined(oz_barcodes(oz_base(Range(vals))), wb_barcodes(wb_products, One)),
                      <<>>, "oz")
    ELSE QueryResults(joined(oz_barcodes(oz_products),
                             wb_barcodes(wb_products,
                                 [k \in {wp.wb_sku : wp \in wb_products} |-> Count(k, vals)])),
                      <<>>, "wb")

\* Match.from_row
from_row(r) ==
    [oz_sku |-> r.oz_sku, wb_sku |-> r.wb_sku, barcode_hit |-> r.barcode_hit,
     matched_by |-> r.matched_by, match_score |-> r.match_score]

\* what running the resolver's SQL on connection c gives for operation op:
\* the query names the column of its own input relation and casts it
Executions(op, c) ==
    LET view == connections[c].inputs
    IN  IF view.col # InputColumn(op)
        THEN {[df |-> <<>>, raised |-> "BinderException"]}
        ELSE IF ~CastsToUBigint(view.vals)
        THEN {[df |-> <<>>, raised |-> "ConversionException"]}
        ELSE {[df |-> r, raised |-> ""] : r \in ResolverResults(op, view.vals)}

\* search_matches(values, input_type=op, con=con) and
\* select_campaign_candidates(values, con=con): the call, up to the first
\* statement that touches a connection
Call(p) ==
    \E op \in ConOps, values \in ConInputs, con \in {NoCon, HANDLE} :
        /\ invocations[p].pc = "idle"
        /\ invocations' = [invocations EXCEPT ![p] =
              IF op = "campaign"
              THEN [IdleInvocation EXCEPT !.pc = "ensure", !.op = op, !.vals = values,
                                          !.con = con, !.i = 1]
              ELSE [IdleInvocation EXCEPT
                       !.pc = IF _normalize_barcodes(values) = <<>> THEN "done" ELSE "ensure",
                       !.op = op, !.vals = _normalize_barcodes(values), !.con = con]]
        /\ UNCHANGED <<connections, storeVars, matchVars, simVars, dupVars, apiVars,
                       helperVars, collVars, pc>>

\* local_con = _ensure_connection(con, ...), or own_con and con = get_connection(...)
EnsureConnection(p) ==
    /\ invocations[p].pc = "ensure"
    /\ \E c \in {_ensure_connection(invocations[p].con)} :
        /\ invocations' = [invocations EXCEPT ![p].pc = "register", ![p].local_con = c]
        /\ connections' =
              IF invocations[p].con # NoCon THEN connections
              ELSE [connections EXCEPT ![c] = [state |-> "open", opened_by |-> "engine",
                                               inputs |-> NoRelation]]
    /\ UNCHANGED <<storeVars, matchVars, simVars, dupVars, apiVars, helperVars, collVars, pc>>

\* local_con.register("inputs", df_inp); the campaign registers one key at a
\* time through find_oz_by_wb(wb_sku, limit=None, con=con)
Register(p) ==
    /\ invocations[p].pc = "register"
    /\ LET inv == invocations[p]
           df_inp == IF inv.op = "campaign" THEN <<inv.vals[inv.i]>> ELSE inv.vals
       IN  connections' = [connections EXCEPT ![inv.local_con].inputs =
                              [col |-> InputColumn(inv.op), vals |-> df_inp]]
    /\ invocations' = [invocations EXCEPT ![p].pc = "execute"]
    /\ UNCHANGED <<storeVars, matchVars, simVars, dupVars, apiVars, helperVars, collVars, pc>>

\* return _run_matches_query(local_con, sql, params); in the campaign the
\* rows of one key are added to the matches and the loop goes on
Execute(p) ==
    /\ invocations[p].pc = "execute"
    /\ LET inv == invocations[p]
       IN  \E x \in Executions(inv.op, inv.local_con) :
              invocations' = [invocations EXCEPT ![p] =
                  IF inv.op # "campaign"
                  THEN [inv EXCEPT !.pc = "done", !.df = x.df, !.raised = x.raised]
                  ELSE IF x.raised # ""
                  THEN [inv EXCEPT !.pc = "finally", !.df = <<>>, !.raised = x.raised]
                  ELSE [inv EXCEPT
                          !.pc = IF inv.i < Len(inv.vals) THEN "register" ELSE "finally",
                          !.i = inv.i + 1,
                          !.df = inv.df \o [k \in DOMAIN x.df |-> from_row(x.df[k])]]]
    /\ UNCHANGED <<connections, storeVars, matchVars, simVars, dupVars, apiVars,
                   helperVars, collVars, pc>>

\* finally: if own_con and con is not None: con.close()
Finally(p) ==
    /\ invocations[p].pc = "finally"
    /\ invocations' = [invocations EXCEPT ![p].pc = "done"]
    /\ connections' =
          IF invocations[p].con = NoCon
          THEN [connections EXCEPT ![invocations[p].local_con].state = "closed"]
          ELSE connections
    /\ UNCHANGED <<storeVars, matchVars, simVars, dupVars, apiVars, helperVars, collVars, pc>>

\* the caller has the result or the exception and lets go of it
ReturnCon(p) ==
    /\ invocations[p].pc = "done"
    /\ invocations' = [invocations EXCEPT ![p] = [IdleInvocation EXCEPT !.pc = "returned"]]
    /\ UNCHANGED <<connections, storeVars, matchVars, simVars, dupVars, apiVars,
                   helperVars, collVars, pc>>

\* the only reference to a connection the engine opened is the local variable
\* local_con: once the caller has let go of the call, the runtime may finalize
\* the connection, at any time or never
Finalize(c) ==
    /\ connections[c].opened_by = "engine"
    /\ connections[c].state = "open"
    /\ \A p \in Invocations : invocations[p].local_con # c
    /\ connections' = [connections EXCEPT ![c].state = "closed"]
    /\ UNCHANGED <<invocations, storeVars, matchVars, simVars, dupVars, apiVars,
                   helperVars, collVars, pc>>

\* two catalogs: every key matches its own counterpart; wb 1 also matches oz 2
ConStores ==
    { <<{OzProduct(1, 1), OzProduct(2, 2)},
        {OzFull(1, {1}, 1), OzFull(2, {2}, 2)},
        {WbProduct(1, L, 1), WbProduct(2, {2}, 2)}>> : L \in {{1}, {1, 2}} }

InitCon ==
    /\ \E s \in ConStores :
        /\ oz_products = s[1]
        /\ oz_products_full = s[2]
        /\ wb_products = s[3]
    /\ punta_exists = FALSE
    /\ punta_google = {}
    /\ MatchIdle
    /\ NoPunta
    /\ ApiIdle
    /\ HelperIdle
    /\ CollIdle
    /\ SimIdle
    /\ DupIdle
    /\ connections = [c \in Connections |->
                        IF c = HANDLE
                        THEN [state |-> "open", opened_by |-> "caller", inputs |-> NoRelation]
                        ELSE [state |-> "unopened", opened_by |-> "", inputs |-> NoRelation]]
    /\ invocations = [p \in Invocations |-> IdleInvocation]
    /\ pc = "idle"

NextCon ==
    \/ \E p \in Invocations :
          Call(p) \/ EnsureConnection(p) \/ Register(p) \/ Execute(p) \/ Finally(p) \/ ReturnCon(p)
    \/ \E c \in Connections : Finalize(c)

SpecCon == InitCon /\ [][NextCon]_vars

(* C22: the lifecycle of store handles *)

\* the call of invocation p is over: it returned or raised
Over(p) == invocations[p].pc = "done"

\* an invocation that has not returned yet works on connection c
InUse(c) ==
    \E p \in Invocations : invocations[p].local_con = c /\ ~Over(p)

HandleUsedAndLeftOpen ==
    /\ connections[HANDLE].state = "open"
    /\ \A p \in Invocations :
          (invocations[p].con = HANDLE /\ invocations[p].local_con # NoCon)
              => invocations[p].local_con = HANDLE

\* C22: a connection the engine opened is open only while the operation that
\* opened it runs: when the operation has returned or raised, the connection
\* is closed; a handle that was passed is the connection the operation works
\* on, and it stays open.
C22_HandleLifecycle ==
    /\ \A c \in Connections :
          (connections[c].opened_by = "engine" /\ connections[c].state = "open") => InUse(c)
    /\ HandleUsedAndLeftOpen

\* C22, the part about a passed handle: the operation works on it, opens no
\* connection of its own and leaves the handle open
C22_HandleLeftOpen ==
    /\ HandleUsedAndLeftOpen
    /\ \A c \in Connections :
          connections[c].opened_by = "engine" =>
              \/ \E p \in Invocations : invocations[p].local_con = c /\ invocations[p].con = NoCon
              \/ \A p \in Invocations : invocations[p].local_con # c

\* C22, for select_campaign_candidates: when it has returned or raised, the
\* connection it opened is closed
C22_CampaignClosesOwn ==
    \A p \in Invocations :
        (Over(p) /\ invocations[p].op = "campaign" /\ invocations[p].con = NoCon)
            => connections[invocations[p].local_con].state = "closed"

(* C23: interleaved invocations *)

\* the outcomes of the campaign's loop over vals from place i on, run alone
RECURSIVE CampaignAlone(_, _, _)
CampaignAlone(vals, i, acc) ==
    IF i > Len(vals) THEN {[df |-> acc, raised |-> ""]}
    ELSE IF ~CastsToUBigint(<<vals[i]>>) THEN {[df |-> <<>>, raised |-> "ConversionException"]}
    ELSE UNION { CampaignAlone(vals, i + 1, acc \o [k \in DOMAIN r |-> from_row(r[k])])
                 : r \in ResolverResults("wb_sku", <<vals[i]>>) }

\* the outcomes of an operation that runs alone on the catalog
AloneOutcomes(op, vals) ==
    IF op = "campaign" THEN CampaignAlone(vals, 1, <<>>)
    ELSE IF vals = <<>> THEN {[df |-> <<>>, raised |-> ""]}
    ELSE IF ~CastsToUBigint(vals) THEN {[df |-> <<>>, raised |-> "ConversionException"]}
    ELSE {[df |-> r, raised |-> ""] : r \in ResolverResults(op, vals)}

SameAsAlone(p) ==
    [df |-> invocations[p].df, raised |-> invocations[p].raised]
        \in AloneOutcomes(invocations[p].op, invocations[p].vals)

\* C23: whatever another invocation does in between, also on the same
\* caller-supplied handle, an invocation returns (or raises) what it returns
\* when it runs alone on the same catalog.
C23_NoInterference == \A p \in Invocations : Over(p) => SameAsAlone(p)

\* C23, for invocations that do not work on one connection at the same time
C23_NoInterferenceOnOwnConnection ==
    \A p \in Invocations :
        (Over(p) /\ invocations[p].con = NoCon) => SameAsAlone(p)

-----------------------------------------------------------------------------
(* Collection priorities (collections.py).  Table punta_collections has the *)
(* primary key collection; a row is (collection, priority, active).         *)

MaxOrderLen == 3       \* reorder_punta_collections gets at most this many names
MaxPriority == 3       \* upsert_punta_priority gets a priority in 1..MaxPriority

\* the names callers store, and the names an order list may hold: "X" is
\* never stored, "" is the empty name
CollNames == {"A", "B", "C"}
OrderNames == {"A", "B", "X", ""}

\* the order of names as strings
NameRank == [c \in CollNames \cup OrderNames |->
                IF c = "" THEN 0 ELSE IF c = "A" THEN 1 ELSE IF c = "B" THEN 2
                ELSE IF c = "C" THEN 3 ELSE 4]

\* ORDER BY priority, collection
CollBefore(a, b) ==
    \/ a.priority < b.priority
    \/ a.priority = b.priority /\ NameRank[a.collection] < NameRank[b.collection]

\* SELECT collection FROM punta_collections ORDER BY priority, collection
current(T) ==
    [k \in 1..Cardinality(T) |->
        (CHOOSE r \in T : Cardinality({q \in T : CollBefore(q, r)}) = k - 1).collection]

\* the two loops that compose `full`: the names of `list` that are not empty
\* and not seen yet, in order
RECURSIVE Compose(_, _)
Compose(list, full) ==
    IF list = <<>> THEN full
    ELSE Compose(Tail(list),
                 IF Head(list) # "" /\ Head(list) \notin Range(full)
                 THEN Append(full, Head(list)) ELSE full)

\* COALESCE(MAX(priority), 0) + 1
get_next_punta_priority(T) == IF T = {} THEN 1 ELSE Max({r.priority : r \in T}) + 1

\* UPDATE punta_collections SET priority = idx WHERE collection = coll, for
\* every (idx, coll) of enumerate(full, start=1)
UpdatePriorities(T, full) ==
    { IF \E idx \in DOMAIN full : full[idx] = r.collection
      THEN [r EXCEPT !.priority = CHOOSE idx \in DOMAIN full : full[idx] = r.collection]
      ELSE r : r \in T }

\* ensure_punta_collection(collection)
EnsurePuntaCollection ==
    \E collection \in CollNames \cup {""} :
        /\ pc = "idle"
        /\ pc' = "ensure_punta_collection"
        /\ coll_before' = punta_collections
        /\ IF collection = ""
           THEN raised' = "ValueError" /\ UNCHANGED punta_collections
           ELSE /\ raised' = ""
                /\ punta_collections' =
                      IF \E r \in punta_collections : r.collection = collection
                      THEN punta_collections
                      ELSE punta_collections \cup
                              {[collection |-> collection,
                                priority |-> get_next_punta_priority(punta_collections),
                                active |-> TRUE]}
        /\ UNCHANGED <<storeVars, matchVars, simVars, dupVars, helperVars, conVars, coll_order>>

\* upsert_punta_priority(collection, priority)
UpsertPuntaPriority ==
    \E collection \in CollNames \cup {""}, priority \in 1..MaxPriority :
        /\ pc = "idle"
        /\ pc' = "upsert_punta_priority"
        /\ coll_before' = punta_collections
        /\ IF collection = ""
           THEN raised' = "ValueError" /\ UNCHANGED punta_collections
           ELSE /\ raised' = ""
                /\ punta_collections' =
                      IF \E r \in punta_collections : r.collection = collection
                      THEN { IF r.collection = collection THEN [r EXCEPT !.priority = priority]
                             ELSE r : r \in punta_collections }
                      ELSE punta_collections \cup
                              {[collection |-> collection, priority |-> priority,
                                active |-> TRUE]}
        /\ UNCHANGED <<storeVars, matchVars, simVars, dupVars, helperVars, conVars, coll_order>>

\* reorder_punta_collections(order)
ReorderPuntaCollections ==
    \E order \in SeqsUpTo(OrderNames, MaxOrderLen) :
        /\ pc = "idle"
        /\ pc' = "reorder_punta_collections"
        /\ coll_order' = order
        /\ coll_before' = punta_collections
        /\ raised' = ""
        /\ punta_collections' =
              UpdatePriorities(punta_collections,
                               Compose(current(punta_collections), Compose(order, <<>>)))
        /\ UNCHANGED <<storeVars, matchVars, simVars, dupVars, helperVars, conVars>>

\* the caller goes on
ReturnColl ==
    /\ pc # "idle"
    /\ pc' = "idle"
    /\ coll_order' = <<>>
    /\ coll_before' = {}
    /\ raised' = ""
    /\ UNCHANGED <<storeVars, matchVars, simVars, dupVars, helperVars, conVars,
                   punta_collections>>

\* init_schema creates the table empty
InitColl ==
    /\ oz_products = {} /\ oz_products_full = {} /\ wb_products = {}
    /\ punta_exists = FALSE /\ punta_google = {}
    /\ MatchIdle
    /\ NoPunta
    /\ ApiIdle
    /\ HelperIdle
    /\ ConIdle
    /\ CollIdle
    /\ SimIdle
    /\ DupIdle
    /\ pc = "idle"

NextColl ==
    EnsurePuntaCollection \/ UpsertPuntaPriority \/ ReorderPuntaCollections \/ ReturnColl

SpecColl == InitColl /\ [][NextColl]_vars

(* C24 *)

Reordered == pc = "reorder_punta_collections"

Stored(T) == {r.collection : r \in T}

PriorityOf(T, c) == (CHOOSE r \in T : r.collection = c).priority

\* the first place of name c in the order list
FirstPlace(c) == Min({i \in DOMAIN coll_order : coll_order[i] = c})

SameCollections ==
    /\ Stored(punta_collections) = Stored(coll_before)
    /\ Cardinality(punta_collections) = Cardinality(coll_before)

DensePriorities ==
    /\ {r.priority : r \in punta_collections} = 1..Cardinality(punta_collections)
    /\ \A r, q \in punta_collections : r.priority = q.priority => r = q

\* the stored names of the order list first, in the sequence of the list;
\* then the other stored names as they were ordered before
OrderRespected ==
    \A a, b \in Stored(coll_before) :
        LET pa == PriorityOf(punta_collections, a)
            pb == PriorityOf(punta_collections, b)
            ra == CHOOSE r \in coll_before : r.collection = a
            rb == CHOOSE r \in coll_before : r.collection = b
        IN  /\ (a \in Range(coll_order) /\ b \in Range(coll_order)
                  /\ FirstPlace(a) < FirstPlace(b)) => pa < pb
            /\ (a \in Range(coll_order) /\ b \notin Range(coll_order)) => pa < pb
            /\ (a \notin Range(coll_order) /\ b \notin Range(coll_order)
                  /\ CollBefore(ra, rb)) => pa < pb

\* C24: after reorder_punta_collections(order), for every order list and
\* every table that ensure_punta_collection and upsert_punta_priority calls
\* can build: no collection is added or removed, the stored priorities are
\* exactly 1..n, each used once, the collections named in the list come
\* first in the sequence of the list (a repeated name counts once) and the
\* others follow in their previous (priority, name) order.
C24_ReorderGivesOneToN ==
    Reordered => (SameCollections /\ DensePriorities /\ OrderRespected)

\* C24, without the density: the collections are the same, no two share a
\* priority, and the order is the one the claim describes
C24_OrderRespected ==
    Reordered =>
        /\ SameCollections
        /\ OrderRespected
        /\ \A r, q \in punta_collections : r.priority = q.priority => r = q

\* C24, for an order list that names stored collections only
C24_OneToNForStoredNames ==
    (Reordered /\ Range(coll_order) \subseteq Stored(coll_before))
        => (SameCollections /\ DensePriorities /\ OrderRespected)

-----------------------------------------------------------------------------
(* C25: the components of the Connectivity Clusterer *)

\* the keys that occur in a pair
PairKeys == UNION { {df_pairs[i].seed_wb_sku, df_pairs[i].cand_wb_sku} : i \in DOMAIN df_pairs }

\* a pair joins a and b, in either direction
Adjacent(a, b) ==
    \E i \in DOMAIN df_pairs : {df_pairs[i].seed_wb_sku, df_pairs[i].cand_wb_sku} = {a, b}

\* the keys a path of pairs leads to from the keys of S
RECURSIVE Reachable(_)
Reachable(S) ==
    LET T == S \cup {b \in PairKeys : \E a \in S : Adjacent(a, b)}
    IN  IF T = S THEN S ELSE Reachable(T)

Clustered == pc = "clustered"

\* C25: when the clusterer has processed the pairs, in whatever order of the
\* rows: every key of a pair is in exactly one component, and two keys are in
\* one component exactly when a path of pairs, read as undirected edges,
\* joins them.
C25_ConnectedComponents ==
    Clustered =>
        /\ UNION Range(components) = PairKeys
        /\ \A i, j \in DOMAIN components :
              i # j => components[i] \cap components[j] = {}
        /\ \A a, b \in PairKeys :
              (\E i \in DOMAIN components : a \in components[i] /\ b \in components[i])
                  <=> b \in Reachable({a})

\* a chain of three pairs over four keys, processed so that the last pair
\* joins two components built before
C25_Witness ==
    /\ Clustered
    /\ Len(df_pairs) = 3
    /\ components = <<PairKeys>>
    /\ Cardinality(PairKeys) = 4
    /\ {df_pairs[1].seed_wb_sku, df_pairs[1].cand_wb_sku}
          \cap {df_pairs[2].seed_wb_sku, df_pairs[2].cand_wb_sku} = {}

-----------------------------------------------------------------------------
(* C27: how _split_large_component grows a subgroup *)

\* the weight of the edge between a and b: the largest final_score of the
\* pairs of the component that join them, 0.0 without such a pair
PairWeight(a, b) ==
    LET scores == {df_pairs[i].final_score : i \in
                      {k \in DOMAIN df_pairs :
                          /\ {df_pairs[k].seed_wb_sku, df_pairs[k].cand_wb_sku} = {a, b}
                          /\ {a, b} \subseteq component}}
    IN  IF scores = {} THEN 0 ELSE Max(scores \cup {0})

\* the cumulative edge weight of node n to the members of group
WeightInto(n, group) == SumOver(group, [x \in group |-> PairWeight(n, x)])

\* the members of g in an order of being added
Orderings(g) ==
    {s \in [1..Cardinality(g) -> g] : \A i, j \in 1..Cardinality(g) : s[i] = s[j] => i = j}

\* what was left of the component when subgroup k was started
RemainingAt(k) == component \ UNION {components[j] : j \in 1..(k - 1)}

\* the keys of g that a path of pairs inside g leads to from the keys of S
RECURSIVE ReachableIn(_, _)
ReachableIn(S, g) ==
    LET T == S \cup {b \in g : \E a \in S : Adjacent(a, b)}
    IN  IF T = S THEN S ELSE ReachableIn(T, g)

ConnectedGroup(g) == \A a \in g : ReachableIn({a}, g) = g

SplitDone == pc = "split" /\ Cardinality(component) > max_size[1]

\* C27: when _split_large_component has split a component: every subgroup
\* can be read as a sequence of additions in which each added node had a
\* strictly positive cumulative weight to the members before it, the largest
\* among the nodes that were left; a subgroup smaller than max_size was
\* closed with no node of positive weight left; so every subgroup of more than
\* one member is connected by pairs of the component, and no member lacks an
\* edge into its subgroup.  In a result of search_similar_matches every group
\* of more than one key is connected by pairs as well.
C27_GreedyGrowth ==
    /\ SplitDone =>
          \A k \in DOMAIN components :
              LET g == components[k]
                  before == RemainingAt(k)
              IN  /\ Cardinality(g) <= max_size[1]
                  /\ \E s \in Orderings(g) :
                        \A m \in 2..Len(s) :
                            LET group == {s[i] : i \in 1..(m - 1)}
                            IN  /\ WeightInto(s[m], group) > 0
                                /\ \A n \in before \ group :
                                      WeightInto(n, group) <= WeightInto(s[m], group)
                  /\ Cardinality(g) < max_size[1] =>
                        \A n \in before \ g : WeightInto(n, g) <= 0
                  /\ Cardinality(g) > 1 =>
                        /\ ConnectedGroup(g)
                        /\ \A n \in g : \E x \in g \ {n} : PairWeight(n, x) > 0
    /\ (pc = "similar" /\ df_pairs # <<>>) =>
          \A k \in DOMAIN components :
              Cardinality(components[k]) > 1 => ConnectedGroup(components[k])

\* a component of four keys, max_size 3: a subgroup of two members was closed
\* although two nodes were left, and a later subgroup was grown as well
C27_Witness ==
    /\ SplitDone
    /\ Cardinality(component) = 4
    /\ max_size = <<3>>
    /\ Len(components) = 2
    /\ Cardinality(components[1]) = 2
    /\ Cardinality(components[2]) = 2


-----------------------------------------------------------------------------
(* What mark_duplicate_sizes leaves alone *)

\* the row of the output that came from the row r of the input
OutRow(r) == CHOOSE o \in Range(dup_out.rows) : o.oz_sku = r.oz_sku

\* every column of r but merge_code and group_number
OtherColumns(r) ==
    [label |-> r.label, oz_sku |-> r.oz_sku, wb_sku |-> r.wb_sku,
     oz_manufacturer_size |-> r.oz_manufacturer_size, match_score |-> r.match_score]

SizeUnknown(r) == r.oz_manufacturer_size \in {NULL, EMPTY}

\* C26: mark_duplicate_sizes returns as many rows as it received, each with
\* its other columns as they were; a row whose size is null or blank keeps its
\* merge_code and its group_number; a row alone in its bucket of grouping
\* value and size keeps its group_number and has its code under the primary
\* prefix; a row is marked a duplicate only beside another row of its own
\* grouping value and size.  (A table without a group_number column has no
\* group number to keep.)
C26_OnlyCodeAndGroupChange ==
    /\ (pc = "dup" /\ ~DupMarked) => dup_out = dup_in
    /\ DupMarked =>
        /\ Len(dup_out.rows) = Len(dup_in.rows)
        /\ dup_out.columns = dup_in.columns \cup {"group_number"}
        /\ \A r \in Range(dup_in.rows) :
              /\ Cardinality({i \in DOMAIN dup_out.rows :
                                 OtherColumns(dup_out.rows[i]) = OtherColumns(r)}) = 1
              /\ SizeUnknown(r) =>
                    /\ OutRow(r).merge_code = r.merge_code
                    /\ "group_number" \in dup_in.columns
                           => OutRow(r).group_number = r.group_number
              /\ (~SizeUnknown(r) /\ Bucket(r) = {r}) =>
                    /\ OutRow(r).merge_code
                           = [r.merge_code EXCEPT !.head = dup_args.primary_prefix]
                    /\ "group_number" \in dup_in.columns
                           => OutRow(r).group_number = r.group_number
              /\ OutRow(r).merge_code.head = dup_args.duplicate_prefix =>
                    /\ ~SizeUnknown(r)
                    /\ Bucket(r) # {r}

\* a duplicate is marked in a table that also holds a row of blank size, and
\* the row of blank size has kept its code
C26_Witness ==
    /\ DupMarked
    /\ \E r, q, d \in Range(dup_in.rows) :
          /\ r.oz_manufacturer_size = EMPTY
          /\ q.oz_manufacturer_size = d.oz_manufacturer_size
          /\ ~SizeUnknown(q)
          /\ q # d /\ d \in Bucket(q)
          /\ OutRow(d).merge_code.head = dup_args.duplicate_prefix
          /\ OutRow(r).merge_code = r.merge_code

\* rows of one size in two groups, none marked
C26_WitnessTwoGroups ==
    /\ DupMarked
    /\ \E q, d \in Range(dup_in.rows) :
          /\ q.oz_manufacturer_size = d.oz_manufacturer_size
          /\ ~SizeUnknown(q)
          /\ d \notin Bucket(q)
          /\ OutRow(q).merge_code.head = dup_args.primary_prefix
          /\ OutRow(d).merge_code.head = dup_args.primary_prefix


-----------------------------------------------------------------------------
(* merge_code and group_number of the marked table *)

\* two rows have equal merge_code exactly when they have equal group_number
InStep(rows) ==
    \A a, b \in Range(rows) :
        (a.merge_code = b.merge_code) <=> (a.group_number = b.group_number)

\* C30: when two rows of the input of mark_duplicate_sizes have equal
\* merge_code exactly when they have equal group_number, two rows of the output
\* have equal merge_code exactly when they have equal group_number.
C30_CodeAndGroupInStep ==
    (DupMarked /\ "group_number" \in dup_in.columns /\ InStep(dup_in.rows))
        => InStep(dup_out.rows)

\* C30, its particular case: two rows marked as duplicates that have the same
\* merge_code have the same group_number.
C30_SameDuplicateCodeSameGroup ==
    (DupMarked /\ "group_number" \in dup_in.columns /\ InStep(dup_in.rows)) =>
        \A a, b \in Range(dup_out.rows) :
            (a.merge_code.head = dup_args.duplicate_prefix /\ a.merge_code = b.merge_code)
                => a.group_number = b.group_number

\* C30, what the code keeps: the rows that are not marked as duplicates keep
\* equal group numbers for equal codes, and two rows of one group number are
\* both unmarked
C30_PrimariesKeepGroup ==
    (DupMarked /\ "group_number" \in dup_in.columns /\ InStep(dup_in.rows)) =>
        \A a, b \in Range(dup_out.rows) :
            /\ (a.merge_code.head # dup_args.duplicate_prefix /\ a.merge_code = b.merge_code)
                   => a.group_number = b.group_number
            /\ (a.group_number = b.group_number /\ a.oz_sku # b.oz_sku)
                   => /\ a.merge_code.head # dup_args.duplicate_prefix
                      /\ b.merge_code.head # dup_args.duplicate_prefix


-----------------------------------------------------------------------------
(* A batch of keys against one key at a time *)

\* what a call for the key k alone may return under the limit lim
AloneResults(k, lim, side) ==
    IF side = "oz"
    THEN QueryResults(joined(oz_barcodes(oz_base({k})), wb_barcodes(wb_products, One)),
                      lim, "oz")
    ELSE QueryResults(joined(oz_barcodes(oz_products),
                             wb_barcodes(wb_products,
                                 [x \in {wp.wb_sku : wp \in wb_products} |->
                                     IF x = k THEN 1 ELSE 0])),
                      lim, "wb")

\* C28: in a resolve by oz_sku or by wb_sku, the rows returned for an input
\* key are rows a call for that key alone returns under the same limit, also
\* when the key is repeated in the input list.
C28_BatchIndependentPerKey ==
    Called =>
        \A k \in Range(inputs) : RowsOf(df, k, Side) \in AloneResults(k, limit, Side)

\* C28 on the Catalog-A side: it holds for every input list
C28_OzBatchIndependent ==
    pc = "oz_skus" =>
        \A k \in Range(inputs) : RowsOf(df, k, "oz") \in AloneResults(k, limit, "oz")

\* C28 on the Catalog-B side: it holds when no key is repeated
C28_WbBatchIndependentOfOtherKeys ==
    (pc = "wb_skus" /\ \A k \in Range(inputs) : Count(k, inputs) = 1) =>
        \A k \in Range(inputs) : RowsOf(df, k, "wb") \in AloneResults(k, limit, "wb")


-----------------------------------------------------------------------------
(* The enrichment against the same call without the mapping source *)

\* the operations whose query takes the enrichment as LEFT JOINs
OverlayCalled ==
    pc \in {"find_wb_by_oz", "find_oz_by_wb", "find_by_barcodes",
            "search_matches_oz_sku", "search_matches_wb_sku", "search_matches_barcode",
            "search_matches_oz_vendor_code"}

\* the mode and the values the operation at pc gave to its resolver
ApiMode ==
    IF pc \in {"find_wb_by_oz", "search_matches_oz_sku", "search_matches_oz_vendor_code"}
    THEN "oz"
    ELSE IF pc \in {"find_oz_by_wb", "search_matches_wb_sku"} THEN "wb"
    ELSE "barcode"

ApiVals ==
    IF pc \in {"find_wb_by_oz", "find_oz_by_wb"} THEN inputs
    ELSE IF pc = "search_matches_oz_vendor_code"
    THEN SeqOf(VendorOzSkus(_normalize_barcodes(inputs)))
    ELSE _normalize_barcodes(inputs)

\* the Match row without the enrichment columns
Core(r) ==
    [input |-> r.input, oz_sku |-> r.oz_sku, wb_sku |-> r.wb_sku,
     barcode_hit |-> r.barcode_hit, matched_by |-> r.matched_by,
     match_score |-> r.match_score]

CoreSeq(s) == [i \in DOMAIN s |-> Core(s[i])]

\* the call returned rows that carry the enrichment columns
Enriched == OverlayCalled /\ raised = "" /\ df # <<>> /\ punta_enabled

\* the Match rows are rows the same call returns without the mapping source
SameAsWithoutSource ==
    CoreSeq(df) \in { CoreSeq(s) : s \in ApiResults(api_joined(ApiMode, ApiVals, FALSE),
                                                    limit, ApiMode) }

\* C29: without the mapping source the call does not fail and its rows have
\* no enrichment columns; with the source the Match rows (input key, opposite
\* key, matched barcode, tier, score), in their order and after the cut at the
\* limit, are those of the same call without the source, also when a barcode
\* maps to several external codes or an external code to several collection
\* rows.
C29_EnrichmentIsOverlay ==
    /\ (OverlayCalled /\ ~punta_enabled /\ ApiVals # <<>>
           /\ (ApiMode \in {"oz", "wb"} => CastsToUBigint(ApiVals)))
          => /\ raised = ""
             /\ \A i \in DOMAIN df : df[i].punta = <<>>
    /\ Enriched => SameAsWithoutSource

\* no barcode stands in two rows of punta_map
SingleValuedMap ==
    \A m1, m2 \in punta_map : m1.barcode = m2.barcode => m1 = m2

\* C29 where it holds: the mapping gives each barcode one row at most
C29_OverlayOfSingleValuedMap ==
    /\ (OverlayCalled /\ ~punta_enabled /\ ApiVals # <<>>
           /\ (ApiMode \in {"oz", "wb"} => CastsToUBigint(ApiVals)))
          => /\ raised = ""
             /\ \A i \in DOMAIN df : df[i].punta = <<>>
    /\ (Enriched /\ SingleValuedMap) => SameAsWithoutSource

====
